---- MODULE Spec2Model ----
(***************************************************************************)
(* A model of bdwork's Band class (src/bdwork/band.py): the k-path         *)
(* resolution (natural segments, custom segment selection and reversal,    *)
(* chained path distances), the derived-data cache of the constructor and  *)
(* the projection aggregation.                                             *)
(*                                                                         *)
(* numpy arrays are functions on 0..n-1 (so indices read as in the source);*)
(* a k-point is a triple.  Reals are fixed-point integers: a reciprocal    *)
(* coordinate c is held as c * Den(n), and a Euclidean norm is rounded     *)
(* down to that grid.                                                      *)
(***************************************************************************)
EXTENDS Integers, Sequences, FiniteSets, TLC

\* values that are no array (a tuple, so that they compare with arrays)
None == <<"None">>
NotCalled == <<"NotCalled">>
IndexError == <<"IndexError">>

(* ---------------- bounds of the model ---------------- *)
MaxSegs == 2        \* natural segments of a dataset: 1..MaxSegs
MaxPts == 3         \* k-points per segment: 2..MaxPts
MaxPathLen == 2     \* entries of a custom_kpath: 1..MaxPathLen
\* the k-points per segment of the datasets: the small ones and a run of 10 per leg
PtsPerLeg == (2..MaxPts) \cup {10}

(* ---------------- numpy / python helpers ---------------- *)
Size(a) == Cardinality(DOMAIN a)
Min2(a, b) == IF a <= b THEN a ELSE b
Max2(a, b) == IF a >= b THEN a ELSE b
Array(s) == [j \in 0..(Len(s) - 1) |-> s[j + 1]]

np_sign(x) == IF x > 0 THEN 1 ELSE IF x < 0 THEN -1 ELSE 0
np_abs(x) == IF x < 0 THEN -x ELSE x
np_flip(a) == [j \in DOMAIN a |-> a[Size(a) - 1 - j]]

\* a[slice(lo, hi)] for 0 <= lo, hi: python clamps both ends to len(a)
PySlice(a, sl) ==
    LET n == Size(a)
        lo == Min2(sl[1], n)
        hi == Min2(sl[2], n)
    IN  [j \in 0..(hi - lo - 1) |-> a[lo + j]]

\* list[i] of python: a negative i counts from the end, anything else raises
PyInRange(list, i) == i >= -Size(list) /\ i < Size(list)
PyIndex(list, i) == IF i >= 0 THEN list[i] ELSE list[Size(list) + i]

RECURSIVE ISqrtFrom(_, _)
ISqrtFrom(x, r) == IF (r + 1) * (r + 1) > x THEN r ELSE ISqrtFrom(x, r + 1)
\* the square root, rounded down
ISqrt(x) == ISqrtFrom(x, 0)

RECURSIVE SumTo(_, _)
\* f[0] + ... + f[n-1]
SumTo(f, n) == IF n <= 0 THEN 0 ELSE SumTo(f, n - 1) + f[n - 1]

(* ---------------- datasets the Reader can deliver ---------------- *)
\* high-symmetry points of the reciprocal cell
HighSymm == [G |-> <<0, 0, 0>>, X |-> <<1, 0, 0>>, M |-> <<1, 1, 0>>]

\* three runs: 1 samples its legs uniformly in a cubic cell, 2 and 3 unevenly in an
\* orthorhombic cell (3 goes G-X and back); a dataset takes the first nseg legs of
\* the run's k-path
PathRuns == {1, 2, 3}
PathLegs(p, i) ==
    IF p = 1
    THEN (IF i % 3 = 0 THEN <<"G", "X">> ELSE IF i % 3 = 1 THEN <<"X", "M">> ELSE <<"M", "G">>)
    ELSE IF p = 3
    THEN (IF i % 2 = 0 THEN <<"G", "X">> ELSE <<"X", "G">>)
    ELSE (IF i % 3 = 0 THEN <<"G", "X">> ELSE IF i % 3 = 1 THEN <<"M", "G">> ELSE <<"X", "M">>)

Den(n) == (n - 1) * (n - 1)
\* position of the j-th of n points of a leg, in units of 1/Den(n) of the leg
LegParam(n, spacing, j) == IF spacing = "uniform" THEN j * (n - 1) ELSE j * j

LegPoint(leg, n, spacing, j) ==
    LET a == HighSymm[leg[1]]
        b == HighSymm[leg[2]]
        t == LegParam(n, spacing, j)
    IN  [c \in 1..3 |-> a[c] * (Den(n) - t) + b[c] * t]

\* the k-points of the run: n points per leg, both end points included
GenKpoints(p, nseg, n, spacing) ==
    [q \in 0..(nseg * n - 1) |-> LegPoint(PathLegs(p, q \div n), n, spacing, q % n)]

\* Fermi-shifted eigenvalues[band][k]; every band is strictly monotonic in k
NBands == 2
GenEigenvalues(nk) == [b \in 0..(NBands - 1) |-> [q \in 0..(nk - 1) |-> (b + 1) * (q + 1) - 4]]

\* weights[band][k] >= 0, not linear in k
GenWeights(nk) == [b \in 0..(NBands - 1) |-> [q \in 0..(nk - 1) |-> (q * q + b) % 4]]
GenSpin(nk) == [b \in 0..(NBands - 1) |-> [q \in 0..(nk - 1) |-> (q * (b + 2)) % 3]]
\* the supercell k-point each k-point of an unfolded path maps to
GenKIndices(nk) == [q \in 0..(nk - 1) |-> q \div 2]
\* projected_data[band][k][item] of two items, as the aggregators return it
NItems == 2
GenProjected(nk) ==
    [b \in 0..(NBands - 1) |-> [q \in 0..(nk - 1) |->
        [c \in 0..(NItems - 1) |-> (q + b + c * q * q) % 5]]]

\* inverse lattice matrix (rows), before normalisation: a cubic and an
\* orthorhombic cell
InvCell(p) == IF p = 1 THEN <<<<2, 0, 0>>, <<0, 2, 0>>, <<0, 0, 2>>>>
              ELSE <<<<2, 0, 0>>, <<0, 4, 0>>, <<0, 0, 6>>>>

Schemes == {"regular", "hse", "unfold"}
Eranges == { <<-6, 6>>, <<-1, 0>> }

(* ---------------- state ---------------- *)
VARIABLES
    unfold, hse,            \* Band.unfold, Band.hse
    kpoints,                \* Band.kpoints[k] (fixed point, times Den(n))
    eigenvalues,            \* Band.eigenvalues[band][k]
    kpoints_file,           \* KPOINTS: [kpts, labels, num_kpts]
    symm_kpath,             \* HighSymmKpath(structure)._kpath["kpoints"], scaled as kpoints
    kpath,                  \* Band.kpath: the declared legs of an unfolded run
    inv_matrix,             \* poscar.structure.lattice.inv_matrix
    constructed,            \* __init__ has run
    custom_kpath,           \* Band.custom_kpath
    custom_kpath_inds,      \* Band.custom_kpath_inds
    custom_kpath_flip,      \* Band.custom_kpath_flip
    kdists,                 \* what the last _get_k_distance() returned or raised
    plotted,                \* the blocks the last plot_plain() took per path entry, or raised
    ticks,                  \* the tick lines the last plot_plain() placed, or raised
    interpolate, new_n,     \* Band.interpolate, Band.new_n
    spectral_weights,       \* Band.spectral_weights[band][k] of an unfolded run
    spin_projections,       \* Band.spin_projections[band][k] of a spin-orbit run with soc_axis
    K_indices,              \* Band.K_indices[0][k] of an unfolded run
    drawn,                  \* what the last plot_plain() drew per path entry, or raised
    projected               \* what the last _plot_projected_general() drew, or raised

pathVars == <<unfold, hse, kpoints, eigenvalues, kpoints_file, symm_kpath, kpath,
              inv_matrix, constructed, custom_kpath, custom_kpath_inds,
              custom_kpath_flip, kdists, plotted, ticks, interpolate, new_n,
              spectral_weights, spin_projections, K_indices, drawn, projected>>

VARIABLES
    dataset,                \* the folder's VASP files as the Reader parses them
    files,                  \* the folder's cache files: kind -> stored array, or None
    writes,                 \* number of np.save calls so far, per cache file
    band,                   \* the Band the last construction produced (or its error)
    constructions           \* the constructions in flight on the folder, each at its step

cacheVars == <<dataset, files, writes, band, constructions>>

VARIABLES
    poscar,                 \* Band.poscar: [site_symbols, natoms]
    element_array,          \* what the last _sum_elements() was given and returned
    atoms_array,            \* what the last _sum_atoms() was given and returned
    spd_array,              \* what the last _sum_spd() was given and returned
    orbital_array           \* what the last _sum_orbitals() was given and returned

aggVars == <<poscar, element_array, atoms_array, spd_array, orbital_array>>

vars == <<pathVars, cacheVars, aggVars>>

(* ---------------- KPathResolver ---------------- *)
\* the flip flag taken from +sign instead of -sign
_get_custom_kpath_sign(ckp) ==
    [inds |-> [j \in DOMAIN ckp |-> np_abs(ckp[j]) - 1],
     flip |-> [j \in DOMAIN ckp |-> (np_sign(ckp[j]) + 1) # 0]]

\* (-np.sign(custom_kpath) + 1).astype(bool), (np.abs(custom_kpath) - 1).astype(int)
_get_custom_kpath(ckp) ==
    [inds |-> [j \in DOMAIN ckp |-> np_abs(ckp[j]) - 1],
     flip |-> [j \in DOMAIN ckp |-> (-np_sign(ckp[j]) + 1) # 0]]

\* indices of the k-points that coincide with a high-symmetry coordinate, ascending
MatchedIndex(kpts, coords) == {q \in DOMAIN kpts : \E c \in coords : kpts[q] = c}

RECURSIVE SortedArrayOf(_)
SortedArrayOf(S) ==
    IF S = {} THEN <<>>
    ELSE LET m == CHOOSE x \in S : \A y \in S : x <= y
         IN  <<m>> \o SortedArrayOf(S \ {m})

\* regular slices that take the first k-point of the next leg as well
_get_slices_shared(uf, hs, kpts, kfile, coords, kp) ==
    IF ~uf /\ ~hs THEN
        LET num_kpts == kfile.num_kpts
            num_slices == Size(kfile.kpts) \div 2
        IN  [i \in 0..(num_slices - 1) |-> <<i * num_kpts, (i + 1) * num_kpts + 1>>]
    ELSE IF hs /\ ~uf THEN
        LET index == Array(SortedArrayOf(MatchedIndex(kpts, coords)))
            nsegs == Size(index) \div 2
            segements == [i \in 0..(nsegs - 1) |-> <<index[2 * i], index[2 * i + 1]>>]
        IN  [i \in 0..(nsegs - 1) |-> <<segements[i][1], segements[i][2] + 1>>]
    ELSE
        LET n == Size(kpts) \div Size(kp)
        IN  [i \in 0..(Size(kp) - 1) |-> <<i * n, (i + 1) * n>>]

\* hybrid slices without the closing matched k-point
_get_slices_open(uf, hs, kpts, kfile, coords, kp) ==
    IF ~uf /\ ~hs THEN
        LET num_kpts == kfile.num_kpts
            num_slices == Size(kfile.kpts) \div 2
        IN  [i \in 0..(num_slices - 1) |-> <<i * num_kpts, (i + 1) * num_kpts>>]
    ELSE IF hs /\ ~uf THEN
        LET index == Array(SortedArrayOf(MatchedIndex(kpts, coords)))
            nsegs == Size(index) \div 2
            segements == [i \in 0..(nsegs - 1) |-> <<index[2 * i], index[2 * i + 1]>>]
        IN  [i \in 0..(nsegs - 1) |-> <<segements[i][1], segements[i][2]>>]
    ELSE
        LET n == Size(kpts) \div Size(kp)
        IN  [i \in 0..(Size(kp) - 1) |-> <<i * n, (i + 1) * n>>]

\* unfolded slices cut as if the path had one leg more
_get_slices_plus1(uf, hs, kpts, kfile, coords, kp) ==
    IF ~uf /\ ~hs THEN
        LET num_kpts == kfile.num_kpts
            num_slices == Size(kfile.kpts) \div 2
        IN  [i \in 0..(num_slices - 1) |-> <<i * num_kpts, (i + 1) * num_kpts>>]
    ELSE IF hs /\ ~uf THEN
        LET index == Array(SortedArrayOf(MatchedIndex(kpts, coords)))
            nsegs == Size(index) \div 2
            segements == [i \in 0..(nsegs - 1) |-> <<index[2 * i], index[2 * i + 1]>>]
        IN  [i \in 0..(nsegs - 1) |-> <<segements[i][1], segements[i][2] + 1>>]
    ELSE
        LET n == Size(kpts) \div (Size(kp) + 1)
        IN  [i \in 0..(Size(kp) - 1) |-> <<i * n, (i + 1) * n>>]

_get_slices(uf, hs, kpts, kfile, coords, kp) ==
    IF ~uf /\ ~hs THEN
        LET num_kpts == kfile.num_kpts
            num_slices == Size(kfile.kpts) \div 2
        IN  [i \in 0..(num_slices - 1) |-> <<i * num_kpts, (i + 1) * num_kpts>>]
    ELSE IF hs /\ ~uf THEN
        LET index == Array(SortedArrayOf(MatchedIndex(kpts, coords)))
            nsegs == Size(index) \div 2
            segements == [i \in 0..(nsegs - 1) |-> <<index[2 * i], index[2 * i + 1]>>]
        IN  [i \in 0..(nsegs - 1) |-> <<segements[i][1], segements[i][2] + 1>>]
    ELSE
        LET n == Size(kpts) \div Size(kp)
        IN  [i \in 0..(Size(kp) - 1) |-> <<i * n, (i + 1) * n>>]

slices == _get_slices(unfold, hse, kpoints, kpoints_file, symm_kpath, kpath)

(* ---------------- DistanceCalculator ---------------- *)
Norm(v) == ISqrt(v[1] * v[1] + v[2] * v[2] + v[3] * v[3])

\* inv_cell /= np.linalg.norm(inv_cell, axis=1).min()
NormalizedInvCell(inv) ==
    LET norms == {Norm(inv[r]) : r \in 1..3}
        m == CHOOSE x \in norms : \A y \in norms : x <= y
    IN  [r \in 1..3 |-> [c \in 1..3 |-> inv[r][c] \div m]]

\* np.dot(k, inv_cell.T)
ToCartesian(k, inv_cell) ==
    [r \in 1..3 |-> inv_cell[r][1] * k[1] + inv_cell[r][2] * k[2] + inv_cell[r][3] * k[3]]

\* np.r_[0, np.cumsum(np.linalg.norm(np.diff(kpt_c, axis=0), axis=1))]
SegmentKDist(kpts, inv) ==
    LET inv_cell == NormalizedInvCell(inv)
        kpt_c == [q \in DOMAIN kpts |-> ToCartesian(kpts[q], inv_cell)]
        step == [q \in 0..(Size(kpts) - 2) |->
                    Norm([c \in 1..3 |-> kpt_c[q + 1][c] - kpt_c[q][c]])]
    IN  [q \in 0..Max2(Size(kpts) - 1, 0) |-> SumTo(step, q)]

\* kdists[-1][0] in place of kdists[-1][-1]
ChainOffset_first(j, done) == IF j = 0 THEN 0 ELSE done[j - 1][0]

\* no chaining at all
ChainOffset_none(j, done) == 0

\* kdists.append(kdist) for j = 0, kdists.append(kdist + kdists[-1][-1]) after
ChainOffset(j, done) == IF j = 0 THEN 0 ELSE done[j - 1][Size(done[j - 1]) - 1]

RECURSIVE KDistLoop(_, _, _)
KDistLoop(index, j, done) ==
    IF j = Size(index) THEN done
    ELSE IF ~PyInRange(slices, index[j]) THEN IndexError
    ELSE LET kdist == SegmentKDist(PySlice(kpoints, PyIndex(slices, index[j])), inv_matrix)
             off == ChainOffset(j, done)
         IN  KDistLoop(index, j + 1,
                       [i \in 0..j |-> IF i < j THEN done[i]
                                       ELSE [q \in DOMAIN kdist |-> kdist[q] + off]])

PathIndex == IF custom_kpath # None THEN custom_kpath_inds
             ELSE [i \in 0..(Size(slices) - 1) |-> i]
PathFlip == IF custom_kpath # None THEN custom_kpath_flip
            ELSE [i \in 0..(Size(slices) - 1) |-> FALSE]

_get_k_distance == KDistLoop(PathIndex, 0, <<>>)

(* ---------------- Interpolator ---------------- *)
\* exact fractions <<numerator, denominator>>, denominator > 0, in lowest terms
RECURSIVE GCD(_, _)
GCD(a, b) == IF b = 0 THEN a ELSE GCD(b, a % b)
Frac(n, d) ==
    LET g == GCD(np_abs(n), np_abs(d))
    IN  IF d > 0 THEN <<n \div g, d \div g>> ELSE <<(0 - n) \div g, (0 - d) \div g>>
OfInt(v) == <<v, 1>>
FAdd(a, b) == Frac(a[1] * b[2] + b[1] * a[2], a[2] * b[2])
FSub(a, b) == Frac(a[1] * b[2] - b[1] * a[2], a[2] * b[2])
FMul(a, b) == Frac(a[1] * b[1], a[2] * b[2])
FDiv(a, b) == Frac(a[1] * b[2], a[2] * b[1])
FLeq(a, b) == a[1] * b[2] <= b[1] * a[2]

MinOf(a) == CHOOSE v \in {a[q] : q \in DOMAIN a} : \A q \in DOMAIN a : v <= a[q]
MaxOf(a) == CHOOSE v \in {a[q] : q \in DOMAIN a} : \A q \in DOMAIN a : v >= a[q]

\* np.linspace(lo, hi, num) without its last point as end point
np_linspace_open(lo, hi, num) ==
    [t \in 0..(num - 1) |-> FAdd(OfInt(lo), Frac(t * (hi - lo), num))]

\* np.linspace(lo, hi, num), num >= 2: both ends included
np_linspace(lo, hi, num) ==
    [t \in 0..(num - 1) |-> FAdd(OfInt(lo), Frac(t * (hi - lo), num - 1))]

\* interp1d(x, y, kind="linear")(at) for min(x) <= at <= max(x), x increasing
interp1d_linear(x, y, at) ==
    LET k == CHOOSE i \in 0..(Size(x) - 2) :
                 /\ FLeq(OfInt(x[i]), at)
                 /\ (i = Size(x) - 2 \/ ~FLeq(OfInt(x[i + 1]), at))
    IN  FAdd(OfInt(y[k]),
             FDiv(FMul(OfInt(y[k + 1] - y[k]), FSub(at, OfInt(x[k]))), OfInt(x[k + 1] - x[k])))

RECURSIVE Neville(_, _, _, _, _)
\* the polynomial through the knots i..j, at 'at'
Neville(x, y, i, j, at) ==
    IF i = j THEN OfInt(y[i])
    ELSE FDiv(FSub(FMul(FSub(at, OfInt(x[j])), Neville(x, y, i, j - 1, at)),
                   FMul(FSub(at, OfInt(x[i])), Neville(x, y, i + 1, j, at))),
              OfInt(x[i] - x[j]))

\* the k-points a segment has when the model interpolates it: with 4 knots the
\* not-a-knot cubic spline of interp1d is the cubic through the 4 points
CubicKnots == 4

\* interp1d(x, y, kind="cubic")(at) on CubicKnots knots
interp1d_cubic(x, y, at) == Neville(x, y, 0, Size(x) - 1, at)

interp1d(x, y, kind, at) ==
    IF kind = "linear" THEN interp1d_linear(x, y, at) ELSE interp1d_cubic(x, y, at)

\* data[np.where(data < 0)] = 0
CropZero(v) == IF v[1] < 0 THEN OfInt(0) ELSE v

\* the resampling with every array taken as cubic, whatever kind says
_get_interpolated_data_segment_cubic(wave_vectors, data, crop_zero, kind) ==
    LET new_wave_vectors == np_linspace(MinOf(wave_vectors), MaxOf(wave_vectors), new_n)
    IN  <<new_wave_vectors,
          [b \in DOMAIN data |-> [t \in DOMAIN new_wave_vectors |->
              LET v == interp1d(wave_vectors, data[b], "cubic", new_wave_vectors[t])
              IN  IF crop_zero THEN CropZero(v) ELSE v]]>>

\* the resampling on a grid that stops short of the segment's end
_get_interpolated_data_segment_open(wave_vectors, data, crop_zero, kind) ==
    LET new_wave_vectors == np_linspace_open(MinOf(wave_vectors), MaxOf(wave_vectors), new_n)
    IN  <<new_wave_vectors,
          [b \in DOMAIN data |-> [t \in DOMAIN new_wave_vectors |->
              LET v == interp1d(wave_vectors, data[b], kind, new_wave_vectors[t])
              IN  IF crop_zero THEN CropZero(v) ELSE v]]>>

\* _get_interpolated_data_segment(wave_vectors, data, crop_zero, kind) on data[row][k]:
\* <<new_wave_vectors, data>>
_get_interpolated_data_segment(wave_vectors, data, crop_zero, kind) ==
    LET new_wave_vectors == np_linspace(MinOf(wave_vectors), MaxOf(wave_vectors), new_n)
    IN  <<new_wave_vectors,
          [b \in DOMAIN data |-> [t \in DOMAIN new_wave_vectors |->
              LET v == interp1d(wave_vectors, data[b], kind, new_wave_vectors[t])
              IN  IF crop_zero THEN CropZero(v) ELSE v]]>>

(* ---------------- plotting: the data of each path entry ---------------- *)
\* bands with an eigenvalue in [min(erange) - 1, max(erange) + 1]
_filter_bands(erange) ==
    LET lo == Min2(erange[1], erange[2]) - 1
        hi == Max2(erange[1], erange[2]) + 1
    IN  {b \in DOMAIN eigenvalues :
            \E q \in DOMAIN eigenvalues[b] : eigenvalues[b][q] >= lo /\ eigenvalues[b][q] <= hi}

\* the flip flag ignored
SegmentEigenvalues_noflip(bands_in_plot, i, f) ==
    [b \in bands_in_plot |-> PySlice(eigenvalues[b], PyIndex(slices, i))]

\* the eigenvalue block of path entry (i, f): np.flip(..., axis=1) when f
SegmentEigenvalues(bands_in_plot, i, f) ==
    [b \in bands_in_plot |->
        LET e == PySlice(eigenvalues[b], PyIndex(slices, i))
        IN  IF f THEN np_flip(e) ELSE e]

plot_plain(erange) ==
    LET bands_in_plot == _filter_bands(erange)
        wave_vector_segments == _get_k_distance
    IN  IF wave_vector_segments = IndexError THEN IndexError
        ELSE [j \in DOMAIN PathIndex |->
                [eigenvalues |-> SegmentEigenvalues(bands_in_plot, PathIndex[j], PathFlip[j]),
                 wave_vectors |-> wave_vector_segments[j]]]

\* a block[row][k] of path entry (i, f): np.flip(..., axis=1) when f
SegmentBlock(a, rows, i, f) ==
    [b \in rows |->
        LET e == PySlice(a[b], PyIndex(slices, i))
        IN  IF f THEN np_flip(e) ELSE e]

\* spin_projections[:, K_indices] of an unfolded run, spin_projections otherwise
spin_projection_full_k ==
    IF unfold THEN [b \in DOMAIN spin_projections |->
                       [q \in DOMAIN K_indices |-> spin_projections[b][K_indices[q]]]]
    ELSE spin_projections

Second(pair) == pair[2]

\* if self.interpolate: the resampled <<wave_vectors, data>>, else the arrays as taken
Resampled(wave_vectors, data, crop_zero, kind) ==
    IF interpolate THEN _get_interpolated_data_segment(wave_vectors, data, crop_zero, kind)
    ELSE <<wave_vectors, data>>

DrawnOf(resampled, spin, weights) ==
    [wave_vectors |-> resampled[1], eigenvalues |-> resampled[2],
     spin_projections |-> spin, spectral_weights |-> weights]

\* what plot_plain draws for path entry j: the blocks, resampled when interpolate
DrawnEntry(bands_in_plot, i, f, wave_vectors) ==
    DrawnOf(Resampled(wave_vectors, SegmentEigenvalues(bands_in_plot, i, f), FALSE, "cubic"),
            IF spin_projections = None THEN None
            ELSE Second(Resampled(wave_vectors,
                                  SegmentBlock(spin_projection_full_k, bands_in_plot, i, f),
                                  TRUE, "linear")),
            IF ~unfold THEN None
            ELSE Second(Resampled(wave_vectors,
                                  SegmentBlock(spectral_weights, bands_in_plot, i, f),
                                  TRUE, "linear")))

plot_plain_drawn(erange, wave_vector_segments) ==
    IF wave_vector_segments = IndexError THEN IndexError
    ELSE [j \in DOMAIN PathIndex |->
             DrawnEntry(_filter_bands(erange), PathIndex[j], PathFlip[j],
                        wave_vector_segments[j])]

\* projected_data[:, K_indices, :] of an unfolded run
ProjectedFullK(projected_data) ==
    IF unfold THEN [b \in DOMAIN projected_data |->
                       [q \in DOMAIN K_indices |-> projected_data[b][K_indices[q]]]]
    ELSE projected_data

\* item c of a block[row][k][item]
ItemOf(block, c) == [b \in DOMAIN block |-> [q \in DOMAIN block[b] |-> block[b][q][c]]]

\* the items of a block[row][k][item], each resampled along k (axis=1) when interpolate
ResampledItems(wave_vectors, block) ==
    [c \in 0..(NItems - 1) |->
        Second(Resampled(wave_vectors, ItemOf(block, c), TRUE, "linear"))]

ProjectedOf(plain, items) ==
    [wave_vectors |-> plain.wave_vectors, eigenvalues |-> plain.eigenvalues,
     projected_data_slice |-> items, spectral_weights |-> plain.spectral_weights]

\* what _plot_projected_general draws per path entry; plain is what its plot_plain
\* call drew, whose distances and eigenvalues the loop computes again
_plot_projected_general(projected_data, erange, wave_vector_segments, plain) ==
    IF wave_vector_segments = IndexError THEN IndexError
    ELSE [j \in DOMAIN PathIndex |->
             ProjectedOf(plain[j],
                         ResampledItems(wave_vector_segments[j],
                                        SegmentBlock(ProjectedFullK(projected_data),
                                                     _filter_bands(erange),
                                                     PathIndex[j], PathFlip[j])))]

(* ---------------- tick lines and tick labels ---------------- *)
\* np.concatenate(list of arrays)
RECURSIVE np_concatenate(_, _)
np_concatenate(list, n) ==
    IF n = 0 THEN <<>>
    ELSE LET head == np_concatenate(list, n - 1)
             a == list[n - 1]
         IN  [j \in 0..(Size(head) + Size(a) - 1) |->
                 IF j < Size(head) THEN head[j] ELSE a[j - Size(head)]]

\* segements: the pairs [i, i + 1] of list positions, for the even i below len - 1
PairUp(list) ==
    [i \in 0..((Size(list) \div 2) - 1) |-> <<list[2 * i], list[2 * i + 1]>>]

\* the end points of the path's segments in path order, a flipped segment reversed
PathEndPoints(segements) ==
    [j \in 0..(2 * Size(PathIndex) - 1) |->
        LET seg == PyIndex(segements, PathIndex[j \div 2])
        IN  IF PathFlip[j \div 2] THEN seg[2 - (j % 2)] ELSE seg[(j % 2) + 1]]

\* group_index: the first end point, every interior boundary as the pair (end of
\* the previous segment, start of the next), the last end point
GroupIndex(points) ==
    LET n == Size(points)
        pairs == (n - 1) \div 2
    IN  IF n = 0 THEN <<>>
        ELSE [g \in 0..(pairs + 1) |->
                IF g = 0 THEN <<points[0]>>
                ELSE IF g <= pairs THEN <<points[2 * g - 1], points[2 * g]>>
                ELSE <<points[n - 1]>>]

\* f"${k}$" if k != "G" else "$\\Gamma$"
Rendered(k) == IF k = "G" THEN "\\Gamma" ELSE k

\* a merged label always written 'A|B', also for A = B
MergedLabel_always(group) ==
    IF Len(group) = 1 THEN <<group[1]>> ELSE <<group[1], group[2]>>

\* one label for a group: the label itself, or 'A|B' (here <<A, B>>) when the two differ
MergedLabel(group) ==
    IF Len(group) = 1 THEN <<group[1]>>
    ELSE IF group[1] = group[2] THEN <<group[1]>>
    ELSE <<group[1], group[2]>>

\* the lines drawn at wave_vectors[k] and the labels set on them:
\* <<k indices, positions, labels>>
Placed(kpoints_index, wave_vectors, labels) ==
    IF \E t \in DOMAIN kpoints_index : kpoints_index[t] >= Size(wave_vectors)
    THEN IndexError
    ELSE <<kpoints_index,
           [t \in DOMAIN kpoints_index |-> PyIndex(wave_vectors, kpoints_index[t])],
           labels>>

\* the tick index (i + 1) * num_kpts of the start of the next segment
RegularTick_next(i, num_kpts) == (i + 1) * num_kpts

\* (i + 1) * num_kpts - 1: the last k-point of segment i of the path
RegularTick(i, num_kpts) == (i + 1) * num_kpts - 1

_get_kticks(wave_vectors) ==
    LET segements == PairUp([i \in DOMAIN kpoints_file.kpts |-> i])
    IN  IF custom_kpath # None /\ \E j \in DOMAIN PathIndex : ~PyInRange(segements, PathIndex[j])
        THEN IndexError
        ELSE LET high_sym_points_inds ==
                     IF custom_kpath # None THEN PathEndPoints(segements)
                     ELSE [i \in DOMAIN kpoints_file.kpts |-> i]
                 group_index == GroupIndex(high_sym_points_inds)
             IN  Placed([t \in 0..((Size(high_sym_points_inds) + 1) \div 2) |->
                            IF t = 0 THEN 0 ELSE RegularTick(t - 1, kpoints_file.num_kpts)],
                        wave_vectors,
                        [g \in DOMAIN group_index |->
                            MergedLabel([e \in DOMAIN group_index[g] |->
                                           Rendered(kpoints_file.labels[group_index[g][e]])])])

\* the labels of HighSymmKpath whose coordinate is the k-point, in the order of its table
SymmOrder == <<"G", "X", "M">>
kpath_labels(k) ==
    LET Match(l) == [c \in 1..3 |-> HighSymm[l][c] * Den(kpoints_file.num_kpts)] = k
                    /\ k \in symm_kpath
    IN  SelectSeq(SymmOrder, Match)

RECURSIVE GroupLabels(_, _)
\* group_labels of one group: every label matched by each of its k-points
GroupLabels(group, n) ==
    IF n = 0 THEN <<>> ELSE GroupLabels(group, n - 1) \o kpath_labels(kpoints[group[n]])

\* the substitution applied to the single symbols of a merged label as well
HseRendered_each(label) == [e \in DOMAIN label |-> Rendered(label[e])]

\* f"${k}$" if k != "G" else "$\\Gamma$", applied to the label after merging
HseRendered(label) == IF label = <<"G">> THEN <<"\\Gamma">> ELSE label

\* [0] + the running sums of the segment lengths, the last one minus 1
HseTicks(full_segments) ==
    LET segment_lengths == [i \in DOMAIN full_segments |->
                               np_abs(full_segments[i][2] - full_segments[i][1]) + 1]
        last == Size(full_segments)
    IN  [t \in 0..last |->
            (IF t = 0 THEN 0 ELSE SumTo(segment_lengths, t)) - (IF t = last THEN 1 ELSE 0)]

_get_kticks_hse(wave_vectors) ==
    LET segements == PairUp(Array(SortedArrayOf(MatchedIndex(kpoints, symm_kpath))))
    IN  IF custom_kpath # None /\ \E j \in DOMAIN PathIndex : ~PyInRange(segements, PathIndex[j])
        THEN IndexError
        ELSE LET high_sym_points_inds ==
                     IF custom_kpath # None THEN PathEndPoints(segements)
                     ELSE [j \in 0..(2 * Size(segements) - 1) |-> segements[j \div 2][(j % 2) + 1]]
                 group_index == GroupIndex(high_sym_points_inds)
             IN  IF \E g \in DOMAIN group_index :
                        GroupLabels(group_index[g], Len(group_index[g])) = <<>>
                 THEN IndexError
                 ELSE Placed(HseTicks(PairUp(high_sym_points_inds)),
                             wave_vectors,
                             [g \in DOMAIN group_index |->
                                 HseRendered(MergedLabel(
                                     GroupLabels(group_index[g], Len(group_index[g]))))])

\* [0] + [n * i for i in range(1, len(labels))], the last one minus 1
UnfoldTicks(n, count) ==
    [t \in 0..(count - 1) |-> (IF t = 0 THEN 0 ELSE n * t) - (IF t = count - 1 THEN 1 ELSE 0)]

_get_kticks_unfold(wave_vectors) ==
    IF custom_kpath # None /\ \E j \in DOMAIN PathIndex : ~PyInRange(kpath, PathIndex[j])
    THEN IndexError
    ELSE LET path == IF custom_kpath # None THEN PathEndPoints(kpath)
                     ELSE [j \in 0..(2 * Size(kpath) - 1) |-> kpath[j \div 2][(j % 2) + 1]]
             group_kpath == GroupIndex([j \in DOMAIN path |-> Rendered(path[j])])
         IN  Placed(UnfoldTicks(Size(kpoints) \div Size(kpath), Size(group_kpath)),
                    wave_vectors,
                    [g \in DOMAIN group_kpath |-> MergedLabel(group_kpath[g])])

\* the tick lines of plot_plain: the scheme's _get_kticks on the concatenated distances
plot_plain_ticks(wave_vector_segments) ==
    IF wave_vector_segments = IndexError THEN IndexError
    ELSE IF hse
    THEN _get_kticks_hse(np_concatenate(wave_vector_segments, Size(wave_vector_segments)))
    ELSE IF unfold
    THEN _get_kticks_unfold(np_concatenate(wave_vector_segments, Size(wave_vector_segments)))
    ELSE _get_kticks(np_concatenate(wave_vector_segments, Size(wave_vector_segments)))

(* ---------------- actions ---------------- *)
CustomPaths(nseg) ==
    UNION {[0..(len - 1) -> (0 - (nseg + 1))..(nseg + 1)] : len \in 1..MaxPathLen}

DefaultNewN == 200

\* the folder of run p taken with nseg legs of n k-points, read under a scheme; run 3
\* is a spin-orbit run constructed with a soc_axis
PathDataset(scheme, p, nseg, n) ==
    /\ unfold = (scheme = "unfold")
    /\ hse = (scheme = "hse")
    /\ kpoints = GenKpoints(p, nseg, n, IF p = 1 THEN "uniform" ELSE "skewed")
    /\ eigenvalues = GenEigenvalues(nseg * n)
    /\ kpoints_file =
          [kpts |-> [i \in 0..(2 * nseg - 1) |-> HighSymm[PathLegs(p, i \div 2)[(i % 2) + 1]]],
           labels |-> [i \in 0..(2 * nseg - 1) |-> PathLegs(p, i \div 2)[(i % 2) + 1]],
           num_kpts |-> n]
    /\ symm_kpath = {[c \in 1..3 |-> HighSymm[l][c] * Den(n)] : l \in DOMAIN HighSymm}
    /\ kpath = [i \in 0..(nseg - 1) |-> PathLegs(p, i)]
    /\ inv_matrix = InvCell(p)
    /\ spectral_weights = (IF scheme = "unfold" THEN GenWeights(nseg * n) ELSE None)
    /\ K_indices = (IF scheme = "unfold" THEN GenKIndices(nseg * n) ELSE None)
    /\ spin_projections =
          (IF p # 3 THEN None
           ELSE IF scheme = "unfold" THEN GenSpin((nseg * n + 1) \div 2)
           ELSE GenSpin(nseg * n))
    /\ constructed = FALSE
    /\ custom_kpath = None
    /\ custom_kpath_inds = None
    /\ custom_kpath_flip = None
    /\ kdists = NotCalled
    /\ plotted = NotCalled
    /\ ticks = NotCalled
    /\ drawn = NotCalled
    /\ projected = NotCalled
    /\ dataset = None /\ files = None /\ writes = None /\ band = None
    /\ constructions = None
    /\ poscar = None /\ element_array = None /\ atoms_array = None /\ spd_array = None
    /\ orbital_array = None

InitPath ==
    /\ \E scheme \in Schemes, p \in PathRuns, nseg \in 1..MaxSegs, n \in PtsPerLeg :
          PathDataset(scheme, p, nseg, n)
    /\ interpolate = FALSE
    /\ new_n = DefaultNewN

\* what Band.__init__ and the plots leave alone
datasetVars == <<unfold, hse, kpoints, eigenvalues, kpoints_file, symm_kpath, kpath,
                 inv_matrix, interpolate, new_n, spectral_weights, spin_projections,
                 K_indices>>

\* Band.__init__: the custom path of the construction
Construct ==
    /\ ~constructed
    /\ constructed' = TRUE
    /\ \E ckp \in {None} \cup CustomPaths(Size(kpath)) :
        /\ custom_kpath' = ckp
        /\ IF ckp # None
           THEN /\ custom_kpath_inds' = _get_custom_kpath(ckp).inds
                /\ custom_kpath_flip' = _get_custom_kpath(ckp).flip
           ELSE UNCHANGED <<custom_kpath_inds, custom_kpath_flip>>
    /\ UNCHANGED <<datasetVars, kdists, plotted, ticks, drawn, projected>>
    /\ UNCHANGED <<cacheVars, aggVars>>

GetKDistance ==
    /\ constructed
    /\ kdists' = _get_k_distance
    /\ UNCHANGED <<datasetVars, constructed, custom_kpath, custom_kpath_inds,
                   custom_kpath_flip, plotted, ticks, drawn, projected>>
    /\ UNCHANGED <<cacheVars, aggVars>>

PlotPlain ==
    /\ constructed
    /\ \E erange \in Eranges : \E wave_vector_segments \in {_get_k_distance} :
          /\ plotted' = plot_plain(erange)
          /\ drawn' = plot_plain_drawn(erange, wave_vector_segments)
          /\ ticks' = plot_plain_ticks(wave_vector_segments)
    /\ UNCHANGED <<datasetVars, constructed, custom_kpath, custom_kpath_inds,
                   custom_kpath_flip, kdists, projected>>
    /\ UNCHANGED <<cacheVars, aggVars>>

\* _plot_projected_general(projected_data): its plot_plain, then the weights per entry
PlotProjectedGeneral ==
    /\ constructed
    /\ \E erange \in Eranges :
       \E projected_data \in {GenProjected(IF unfold THEN (Size(kpoints) + 1) \div 2
                                           ELSE Size(kpoints))} :
       \E wave_vector_segments \in {_get_k_distance} :
       \E plain \in {plot_plain_drawn(erange, wave_vector_segments)} :
          /\ plotted' = plot_plain(erange)
          /\ drawn' = plain
          /\ ticks' = plot_plain_ticks(wave_vector_segments)
          /\ projected' = _plot_projected_general(projected_data, erange,
                                                  wave_vector_segments, plain)
    /\ UNCHANGED <<datasetVars, constructed, custom_kpath, custom_kpath_inds,
                   custom_kpath_flip, kdists>>
    /\ UNCHANGED <<cacheVars, aggVars>>

NextPath == Construct \/ GetKDistance \/ PlotPlain

SpecPath == InitPath /\ [][NextPath]_vars

\* Bands constructed with interpolate=True on folders of CubicKnots k-points per leg
MaxNewN == 3
InitInterp ==
    /\ \E scheme \in Schemes, p \in PathRuns, nseg \in 1..MaxSegs :
          PathDataset(scheme, p, nseg, CubicKnots)
    /\ interpolate = TRUE
    /\ new_n \in 2..MaxNewN

NextInterp == Construct \/ PlotPlain \/ PlotProjectedGeneral

SpecInterp == InitInterp /\ [][NextInterp]_vars

(* ======================= the derived-data cache ======================= *)
(* ---------------- bounds of the model ---------------- *)
NKpts == 3          \* k-points of a run (the first one has a finite weight)
MaxAtoms == 2       \* atoms of a structure: 1..MaxAtoms
MaxWrites == 2      \* constructions stop once a cache file was saved this often

NOrbitals == 9      \* lm-decomposed columns of PROCAR without f orbitals (LORBIT = 11)
NOrbitalsF == 16    \* lm-decomposed columns of PROCAR with f orbitals
NGroups == 3        \* s, p, d columns of a PROCAR that is not lm-decomposed (LORBIT = 10)

(* ---------------- numpy helpers ---------------- *)
Range0(n) == 0..(n - 1)
Concat(x, y) ==
    [j \in Range0(Size(x) + Size(y)) |-> IF j < Size(x) THEN x[j] ELSE y[j - Size(x)]]
\* a[idx] for an index array idx
Take(a, idx) == [j \in DOMAIN idx |-> a[idx[j]]]
\* a[:, idx]
TakeK(a, idx) == [b \in DOMAIN a |-> Take(a[b], idx)]
\* a[c:]
From(a, c) == [j \in Range0(Size(a) - c) |-> a[c + j]]
\* a[lo:hi]
Between(a, lo, hi) == [j \in Range0(hi - lo) |-> a[lo + j]]
\* a[:, :, sp]
Selected(a, sp) == [b \in DOMAIN a |-> [q \in DOMAIN a[b] |-> a[b][q][sp]]]
\* np.concatenate([x, y], axis=2)
ConcatLast(x, y) == [b \in DOMAIN x |-> [q \in DOMAIN x[b] |-> Concat(x[b][q], y[b][q])]]

(* ---------------- what the Reader parses from the folder ---------------- *)
\* EIGENVAL: eigenvalues[Spin][k][band] = (energy, occupation)
Energy(ch, q, b) == 3 * b + q - 2 + 5 * ch
Occupation(ch, q, b) == 100 + b + ch
eigenval_eigenvalues(ds) ==
    [ch \in Range0(ds.nchannels) |->
        [q \in Range0(NKpts) |->
            [b \in Range0(NBands) |-> Array(<<Energy(ch, q, b), Occupation(ch, q, b)>>)]]]

eigenval_kpoints(ds) ==
    [q \in Range0(NKpts) |-> [c \in Range0(3) |-> 1000 + 10 * q + c]]

\* a hybrid-functional run lists the SCF k-point first, the band path with weight 0
eigenval_kpoints_weights(ds) ==
    [q \in Range0(NKpts) |-> IF ds.LHFCALC /\ q >= 1 THEN 0 ELSE 1]

\* PROCAR as ProcarParser.spd[k][band][spin][atom(+tot)][column]: column 0 is the
\* atom number, then the orbitals, then their total; with more than one atom a
\* last row holds the totals over the atoms.  A spin-polarised run stacks the
\* down bands after the up bands; a spin-orbit run has the four spin components.
RawProjection(ds, q, bb, ch, a, o) ==
    IF ds.LSORBIT /\ ch >= 1
    THEN ((q + 2 * bb + 3 * a + o + ch) % 5) - 2
    ELSE (q + 2 * bb + 3 * a + o) % 4

RECURSIVE SumOver(_, _, _)
\* F(0) + ... + F(n-1)
SumOver(F(_), n, acc) == IF n = 0 THEN acc ELSE SumOver(F, n - 1, acc + F(n - 1))

\* parser.spd.shape
spd_bands(ds) == IF ds.nchannels > 1 THEN 2 * NBands ELSE NBands
spd_channels(ds) == IF ds.LSORBIT THEN 4 ELSE 1
spd_rows(ds) == IF ds.natoms = 1 THEN 1 ELSE ds.natoms + 1
spd_columns(ds) == ds.norbitals + 2

\* one orbital column of one row: an atom, or the total over the atoms
SpdOrbital(ds, q, bb, ch, r, o) ==
    IF r < ds.natoms THEN RawProjection(ds, q, bb, ch, r, o)
    ELSE LET F(a) == RawProjection(ds, q, bb, ch, a, o) IN SumOver(F, ds.natoms, 0)

SpdCell(ds, q, bb, ch, r, c) ==
    IF c = 0 THEN r + 1
    ELSE IF c <= ds.norbitals THEN SpdOrbital(ds, q, bb, ch, r, c - 1)
    ELSE LET F(o) == SpdOrbital(ds, q, bb, ch, r, o) IN SumOver(F, ds.norbitals, 0)

procar_spd(ds) ==
    [q \in Range0(NKpts) |-> [bb \in Range0(spd_bands(ds)) |->
        [ch \in Range0(spd_channels(ds)) |-> [r \in Range0(spd_rows(ds)) |->
            [c \in Range0(spd_columns(ds)) |-> SpdCell(ds, q, bb, ch, r, c)]]]]]

\* np.where(kpoint_weights == 0)[0]
ZeroIndices(w) == Array(SortedArrayOf({q \in DOMAIN w : w[q] = 0}))
zero_weight(ds) == ZeroIndices(eigenval_kpoints_weights(ds))

(* ---------------- Band._load_bands ---------------- *)
\* np.transpose(channel, axes=(1, 0, 2)) with efermi subtracted from column 0
FermiShifted(channel, efermi) ==
    [b \in DOMAIN channel[0] |-> [q \in DOMAIN channel |->
        [c \in DOMAIN channel[q][b] |->
            IF c = 0 THEN channel[q][b][0] - efermi ELSE channel[q][b][c]]]]

\* the up channel, followed on the last axis by the down channel when there is one
BothChannels(raw, efermi) ==
    IF Size(raw) > 1
    THEN ConcatLast(FermiShifted(raw[0], efermi), FermiShifted(raw[1], efermi))
    ELSE FermiShifted(raw[0], efermi)

\* np.append(eigenvalues, np.tile(kpoints, (nbands, 1, 1)), axis=2)
AppendKpoints(eig, kpts) ==
    [b \in DOMAIN eig |-> [q \in DOMAIN eig[b] |-> Concat(eig[b][q], kpts[q])]]

\* the cache-miss branch up to np.save: the array stored as eigenvalues.npy
MergedRaw(ds, efermi, hs) ==
    IF hs
    THEN AppendKpoints(TakeK(BothChannels(eigenval_eigenvalues(ds), efermi), zero_weight(ds)),
                       Take(eigenval_kpoints(ds), zero_weight(ds)))
    ELSE AppendKpoints(BothChannels(eigenval_eigenvalues(ds), efermi), eigenval_kpoints(ds))

\* the energy columns and the k-point columns of the stored array, with the
\* energies of both spin channels (ncols = 4) or of the only one (ncols = 2)
Decoded(band_data, ncols) ==
    [eigenvalues |->
        [b \in DOMAIN band_data |-> [q \in DOMAIN band_data[b] |->
            IF ncols = 4 THEN Take(band_data[b][q], Array(<<0, 2>>))
            ELSE band_data[b][q][0]]],
     ndim |-> IF ncols = 4 THEN 3 ELSE 2,
     kpoints |-> [q \in DOMAIN band_data[0] |-> From(band_data[0][q], ncols)]]

\* what the cache-miss branch keeps of the array it has just stored
DecodeFresh(ds, band_data) ==
    Decoded(band_data, IF Size(eigenval_eigenvalues(ds)) > 1 THEN 4 ELSE 2)

\* the cache-hit branch: the columns are chosen from the INCAR flags
DecodeCached(ds, band_data) ==
    Decoded(band_data, IF ds.ISPIN /\ ~ds.LSORBIT THEN 4 ELSE 2)

SpinIndex(spin) == IF spin = "up" THEN 0 ELSE 1

\* eigenvalues[:, :, spin] when EIGENVAL has two spin channels; a third index on
\* an array of two axes is an IndexError
SpinChannel(ds, dec, spin) ==
    IF Size(eigenval_eigenvalues(ds)) > 1 /\ dec.ndim < 3
    THEN [status |-> "IndexError", eigenvalues |-> None, kpoints |-> None]
    ELSE [status |-> "ok",
          eigenvalues |-> IF Size(eigenval_eigenvalues(ds)) > 1
                          THEN Selected(dec.eigenvalues, SpinIndex(spin))
                          ELSE dec.eigenvalues,
          kpoints |-> dec.kpoints]

\* a variant that never finds the file
PreLoaded_never(fs, kind) == FALSE
\* os.path.isfile(os.path.join(folder, kind))
PreLoaded(fs, kind) == fs[kind] # None

\* [eigenvalues, kpoints] from band_data: the array loaded on a hit, or the array
\* computed and saved on a miss
_load_bands(ds, hit, band_data, spin) ==
    SpinChannel(ds, IF hit THEN DecodeCached(ds, band_data) ELSE DecodeFresh(ds, band_data),
                spin)

(* ---------------- Band._load_projected_bands ---------------- *)
AxisIndex(soc_axis) ==
    IF soc_axis = "x" THEN 1 ELSE IF soc_axis = "y" THEN 2 ELSE IF soc_axis = "z" THEN 3 ELSE 0

\* the rows kept of parser.spd: all of them for one atom, [:-1] otherwise
AtomRows(ds) ==
    IF ds.natoms = 1 THEN Range0(spd_rows(ds)) ELSE Range0(spd_rows(ds) - 1)

\* parser.spd[..., 1:-1] of one row
OrbitalColumns(ds, row) == Between(row, 1, spd_columns(ds) - 1)

\* the up bands and the down bands of spd side by side on a new channel axis
StackedHalves(ds, spd, shape) ==
    [b \in Range0(shape) |-> [q \in Range0(NKpts) |->
        [ch \in Range0(2) |-> [a \in AtomRows(ds) |->
            OrbitalColumns(ds, spd[q][IF ch = 0 THEN b ELSE shape + b][0][a])]]]]

\* np.transpose(spd, axes=(1, 0, 2, 3, 4)) without the total row and columns
AllChannels(ds, spd) ==
    [b \in Range0(spd_bands(ds)) |-> [q \in Range0(NKpts) |->
        [ch \in Range0(spd_channels(ds)) |-> [a \in AtomRows(ds) |->
            OrbitalColumns(ds, spd[q][b][ch][a])]]]]

\* the cache-miss branch up to np.save: projections[band][k][channel][atom][orbital],
\* or ValueError when the two halves of the band axis cannot be concatenated
ProjectedRaw(ds) ==
    IF ds.ISPIN /\ ~ds.LSORBIT
    THEN IF spd_bands(ds) - (spd_bands(ds) \div 2) # spd_bands(ds) \div 2
         THEN <<"ValueError">>
         ELSE StackedHalves(ds, procar_spd(ds), spd_bands(ds) \div 2)
    ELSE AllChannels(ds, procar_spd(ds))

\* a variant that puts the magnitude in both halves
SeparatedHalf_magnitude(x, spin) == IF x < 0 THEN -x ELSE x
\* separated_projections[..., soc_spin]: the positive part, or minus the negative part
SeparatedHalf(x, spin) ==
    IF spin = "up" THEN (IF x > 0 THEN x ELSE 0) ELSE (IF x < 0 THEN -x ELSE 0)

\* a variant that keeps every k-point
HseFilter_off(a, ds, hs) == a
\* projections[:, zero_weight] when hse
HseFilter(a, ds, hs) == IF hs THEN TakeK(a, zero_weight(ds)) ELSE a

\* a variant that leaves the signed component as it is
Separated_unsplit(a, spin) == a
\* the chosen half of a[band][k][atom][orbital]
Separated(a, spin) ==
    [b \in DOMAIN a |-> [q \in DOMAIN a[b] |-> [r \in DOMAIN a[b][q] |->
        [o \in DOMAIN a[b][q][r] |-> SeparatedHalf(a[b][q][r][o], spin)]]]]

\* np.square(a)
Squared(a) ==
    [b \in DOMAIN a |-> [q \in DOMAIN a[b] |-> [r \in DOMAIN a[b][q] |->
        [o \in DOMAIN a[b][q][r] |-> a[b][q][r][o] * a[b][q][r][o]]]]]

\* projections[band][k][atom][orbital] from stored, the array loaded on a hit or
\* computed and saved on a miss; or the error raised
_load_projected_bands(ds, stored, spin, soc_axis, hs) ==
    IF stored = <<"ValueError">> THEN stored
    ELSE IF (IF ds.LSORBIT THEN AxisIndex(soc_axis) ELSE SpinIndex(spin)) >= Size(stored[0][0])
    THEN IndexError
    ELSE Squared(HseFilter(
            IF ds.LSORBIT /\ soc_axis # "None"
            THEN Separated(Selected(stored, AxisIndex(soc_axis)), spin)
            ELSE Selected(stored, IF ds.LSORBIT THEN AxisIndex(soc_axis) ELSE SpinIndex(spin)),
            ds, hs))

(* ---------------- Band._load_soc_spin_projection ---------------- *)
\* np.transpose(parser.spd[:, :, :, -1, -1], axes=(1, 0, 2))
LastRowLastColumn(ds, spd) ==
    [b \in Range0(spd_bands(ds)) |-> [q \in Range0(NKpts) |->
        [ch \in Range0(spd_channels(ds)) |->
            spd[q][b][ch][spd_rows(ds) - 1][spd_columns(ds) - 1]]]]

\* the cache-miss branch up to np.save
SpinAxisRaw(ds) == LastRowLastColumn(ds, procar_spd(ds))

SetMax(S) == CHOOSE x \in S : \A y \in S : y <= x

\* separated_projections.max() over both halves
SeparatedMax(a) ==
    SetMax({SeparatedHalf(a[b][q], sp) : b \in DOMAIN a, q \in DOMAIN a[0], sp \in {"up", "down"}})

\* separated_projections / separated_projections.max(): a quotient num / den (0/0 is nan)
Normalized(x, m) == [num |-> x, den |-> m]

\* the chosen half of a[band][k] over m
NormalizedHalf(a, spin, m) ==
    [b \in DOMAIN a |-> [q \in DOMAIN a[b] |-> Normalized(SeparatedHalf(a[b][q], spin), m)]]

\* value[band][k]: the chosen half, normalised, from stored, the array loaded on a
\* hit or computed and saved on a miss
_load_soc_spin_projection(ds, stored, spin, soc_axis, hs) ==
    NormalizedHalf(HseFilter(Selected(stored, AxisIndex(soc_axis)), ds, hs), spin,
                   SeparatedMax(HseFilter(Selected(stored, AxisIndex(soc_axis)), ds, hs)))

(* ---------------- Band._load_bands_unfold ---------------- *)
UnfoldN == 2        \* n: intervals between two high-symmetry points
UnfoldLegs == 2     \* len(kpath): declared legs of the unfolded path

\* make_kpath(high_symm_points, nseg=n): n * legs + 1 points
make_kpath(ds) ==
    [q \in Range0(ds.n * ds.legs + 1) |-> [c \in Range0(3) |-> 2000 + 10 * q + c]]

\* unfold(...).spectral_weight(kpath)[spin][k][band] = (energy, weight, origin k)
spectral_weight(ds) ==
    [ch \in Range0(ds.nchannels) |-> [q \in DOMAIN make_kpath(ds) |-> [b \in Range0(NBands) |->
        Array(<<Energy(ch, q, b), (q + b + ch) % 2, q % NKpts>>)]]]

\* list.insert(i, x)
ListInsert(l, i, x) ==
    [j \in Range0(Size(l) + 1) |-> IF j < i THEN l[j] ELSE IF j = i THEN x ELSE l[j - 1]]

RECURSIVE InsertAll(_, _, _)
\* for i in reversed(inserts): inds.insert(i, i), with inserts[j] = n * (j + 1)
InsertAll(inds, n, j) ==
    IF j < 0 THEN inds ELSE InsertAll(ListInsert(inds, n * (j + 1), n * (j + 1)), n, j - 1)

\* a variant that repeats no point
UnfoldInds_plain(n, path_len) == [j \in Range0(n * path_len + 1) |-> j]
UnfoldInds(n, path_len) == InsertAll([j \in Range0(n * path_len + 1) |-> j], n, path_len - 2)

UnfoldSpinIndex(ds, spin) == IF spin = "up" THEN 0 ELSE IF ds.LSORBIT THEN 0 ELSE 1

\* np.transpose(t, axes=(2, 1, 0))[c] of t[k][band][component]
Component(t, c) == [b \in DOMAIN t[0] |-> [q \in DOMAIN t |-> t[q][b][c]]]

\* e - efermi
Shifted(e, efermi) == [b \in DOMAIN e |-> [q \in DOMAIN e[b] |-> e[b][q] - efermi]]

\* the arrays of one spin channel t at the k-points inds
UnfoldedAt(ds, t, inds, efermi) ==
    [status |-> "ok",
     eigenvalues |-> TakeK(Shifted(Component(t, 0), efermi), inds),
     spectral_weights |-> TakeK(Component(t, 1), inds),
     K_indices |-> TakeK(Component(t, 2), inds),
     kpoints |-> Take(make_kpath(ds), inds)]

\* [status, eigenvalues, spectral_weights, K_indices, kpoints] from band_data, the
\* array loaded on a hit or computed and saved on a miss
_load_bands_unfold(ds, band_data, spin, efermi) ==
    IF UnfoldSpinIndex(ds, spin) >= Size(band_data)
    THEN [status |-> "IndexError", eigenvalues |-> None, spectral_weights |-> None,
          K_indices |-> None, kpoints |-> None]
    ELSE UnfoldedAt(ds, band_data[UnfoldSpinIndex(ds, spin)], UnfoldInds(ds.n, ds.legs), efermi)

(* ---------------- Band.__init__ ---------------- *)
Kinds == {"eigenvalues", "unfolded_eigenvalues", "projected_eigenvalues", "spin_projections"}
NoFiles == [kind \in Kinds |-> None]

\* the arguments of a construction; a folder is either a supercell run that is
\* unfolded or a run that is not, soc_axis is given or not on every run, and the
\* stretch (applied after the load whatever the run) is varied on the plain run
Params(ds) ==
    [spin : {"up", "down"}, projected : BOOLEAN, unfold : {ds.supercell},
     soc_axis : {"None", "z"},
     shift_efermi : {0, 1},
     stretch_factor : IF ds.LSORBIT \/ ds.ISPIN THEN {1} ELSE {1, 2}]

\* self.eigenvalues *= self.stretch_factor
Stretched(e, stretch_factor) ==
    IF stretch_factor # 1
    THEN [b \in DOMAIN e |-> [q \in DOMAIN e[b] |-> e[b][q] * stretch_factor]]
    ELSE e

\* the attributes set before the first load
NewBand(ds, p) ==
    [status |-> "ok", params |-> p, efermi |-> ds.efermi + p.shift_efermi,
     hse |-> ds.LHFCALC /\ ~p.unfold, pre_loaded |-> {},
     eigenvalues |-> None, kpoints |-> None, spectral_weights |-> None,
     K_indices |-> None, projected_eigenvalues |-> None, spin_projections |-> None]

BandsKind(p) == IF p.unfold THEN "unfolded_eigenvalues" ELSE "eigenvalues"

\* the attributes the band loader l leaves
WithBands(bd, p, l) ==
    IF l.status # "ok" THEN [bd EXCEPT !.status = l.status]
    ELSE IF p.unfold
    THEN [bd EXCEPT !.eigenvalues = Stretched(l.eigenvalues, p.stretch_factor),
                    !.spectral_weights = l.spectral_weights,
                    !.K_indices = l.K_indices,
                    !.kpoints = l.kpoints]
    ELSE [bd EXCEPT !.eigenvalues = Stretched(l.eigenvalues, p.stretch_factor),
                    !.kpoints = l.kpoints]

\* the first load: [band, files, written] with the Band so far (or the error
\* raised), the folder's cache files and the kinds saved
BandsLoaded(ds, fs, p, hit, band_data) ==
    [band |-> WithBands([NewBand(ds, p) EXCEPT !.pre_loaded = IF hit THEN {BandsKind(p)} ELSE {}],
                        p,
                        IF p.unfold
                        THEN _load_bands_unfold(ds, band_data, p.spin, ds.efermi + p.shift_efermi)
                        ELSE _load_bands(ds, hit, band_data, p.spin)),
     files |-> IF hit THEN fs ELSE [fs EXCEPT ![BandsKind(p)] = band_data],
     written |-> IF hit THEN {} ELSE {BandsKind(p)}]

\* the content of a file np.load cannot read
Corrupt == <<"Corrupt">>

InitBands(ds, fs, p) ==
    IF fs[BandsKind(p)] = Corrupt
    THEN [band |-> [NewBand(ds, p) EXCEPT !.status = "ValueError",
                                          !.pre_loaded = {BandsKind(p)}],
          files |-> fs, written |-> {}]
    ELSE
    BandsLoaded(ds, fs, p, PreLoaded(fs, BandsKind(p)),
                IF PreLoaded(fs, BandsKind(p)) THEN fs[BandsKind(p)]
                ELSE IF p.unfold THEN spectral_weight(ds)
                ELSE MergedRaw(ds, ds.efermi + p.shift_efermi, ds.LHFCALC /\ ~p.unfold))

\* r after the load of kind: the file is saved on a miss, attr is set to value
\* unless an error was raised
Kept(r, kind, hit, stored, attr, value) ==
    IF stored = <<"ValueError">> THEN [r EXCEPT !.band.status = "ValueError"]
    ELSE IF stored = Corrupt
    THEN [r EXCEPT !.band.status = "ValueError", !.band.pre_loaded = @ \cup {kind}]
    ELSE [band |-> IF value = IndexError
                   THEN [r.band EXCEPT !.status = "IndexError",
                                       !.pre_loaded = IF hit THEN @ \cup {kind} ELSE @]
                   ELSE [r.band EXCEPT ![attr] = value,
                                       !.pre_loaded = IF hit THEN @ \cup {kind} ELSE @],
          files |-> IF hit THEN r.files ELSE [r.files EXCEPT ![kind] = stored],
          written |-> IF hit THEN r.written ELSE r.written \cup {kind}]

ProjectedLoaded(ds, p, r, hit, stored) ==
    Kept(r, "projected_eigenvalues", hit, stored, "projected_eigenvalues",
         _load_projected_bands(ds, stored, p.spin, p.soc_axis, r.band.hse))

\* if projected: self._load_projected_bands()
InitProjected(ds, p, r) ==
    IF r.band.status # "ok" \/ ~p.projected THEN r
    ELSE ProjectedLoaded(ds, p, r, PreLoaded(r.files, "projected_eigenvalues"),
                         IF PreLoaded(r.files, "projected_eigenvalues")
                         THEN r.files["projected_eigenvalues"]
                         ELSE ProjectedRaw(ds))

SpinLoaded(ds, p, r, hit, stored) ==
    Kept(r, "spin_projections", hit, stored, "spin_projections",
         _load_soc_spin_projection(ds, stored, p.spin, p.soc_axis, r.band.hse))

\* if soc_axis is not None and self.lsorbit: self._load_soc_spin_projection()
InitSpin(ds, p, r) ==
    IF r.band.status # "ok" \/ p.soc_axis = "None" \/ ~ds.LSORBIT THEN r
    ELSE SpinLoaded(ds, p, r, PreLoaded(r.files, "spin_projections"),
                    IF PreLoaded(r.files, "spin_projections")
                    THEN r.files["spin_projections"]
                    ELSE SpinAxisRaw(ds))

\* the constructor: the Band it leaves (or the error it raises), the folder's
\* cache files after it and the kinds it saved
BandInit(ds, fs, p) == InitSpin(ds, p, InitProjected(ds, p, InitBands(ds, fs, p)))

(* ---------------- actions ---------------- *)
Runs == {"plain", "spinpol", "soc", "soc_ispin"}
Functionals == {"pbe", "hse", "supercell"}

\* what the Reader finds in a folder: the INCAR flags, the spin channels of
\* EIGENVAL, the atoms of POSCAR, the orbital columns of PROCAR, E-fermi of OUTCAR;
\* with it the n and the kpath a supercell run is unfolded along
Folder(run, functional, natoms, norbitals) ==
    [ISPIN |-> run \in {"spinpol", "soc_ispin"},
     LSORBIT |-> run \in {"soc", "soc_ispin"},
     LHFCALC |-> functional = "hse",
     supercell |-> functional = "supercell",
     nchannels |-> IF run = "spinpol" THEN 2 ELSE 1,
     natoms |-> natoms,
     norbitals |-> norbitals,
     n |-> UnfoldN,
     legs |-> UnfoldLegs,
     efermi |-> 2]

InitCache ==
    /\ \E run \in Runs, functional \in Functionals :
          dataset = Folder(run, functional, MaxAtoms, NGroups)
    /\ files = NoFiles
    /\ writes = [kind \in Kinds |-> 0]
    /\ band = [status |-> "none"]
    /\ constructions = None
    /\ poscar = None /\ element_array = None /\ atoms_array = None /\ spd_array = None
    /\ orbital_array = None
    /\ unfold = None /\ hse = None /\ kpoints = None /\ eigenvalues = None
    /\ kpoints_file = None /\ symm_kpath = None /\ kpath = None /\ inv_matrix = None
    /\ constructed = None /\ custom_kpath = None /\ custom_kpath_inds = None
    /\ custom_kpath_flip = None /\ kdists = None /\ plotted = None /\ ticks = None
    /\ interpolate = None /\ new_n = None /\ spectral_weights = None
    /\ spin_projections = None /\ K_indices = None /\ drawn = None /\ projected = None

\* Band(folder, ...): one construction, run to its end
ConstructBand ==
    /\ \A kind \in Kinds : writes[kind] < MaxWrites
    /\ \E p \in Params(dataset) :
        \E r \in {BandInit(dataset, files, p)} :
            /\ band' = r.band
            /\ files' = r.files
            /\ writes' = [kind \in Kinds |->
                            IF kind \in r.written THEN writes[kind] + 1 ELSE writes[kind]]
    /\ UNCHANGED <<dataset, constructions>>
    /\ UNCHANGED <<pathVars, aggVars>>

NextCache == ConstructBand

SpecCache == InitCache /\ [][NextCache]_vars

(* ---------------- folders with any INCAR flags and EIGENVAL channels ---------------- *)
\* the INCAR flags are read from INCAR (152-167) and the spin channels from
\* EIGENVAL (122): every combination of the three
AnyFolder(ispin, lsorbit, nchannels, functional) ==
    [Folder("plain", functional, MaxAtoms, NGroups)
        EXCEPT !.ISPIN = ispin, !.LSORBIT = lsorbit, !.nchannels = nchannels]

InitLayout ==
    /\ \E ispin \in BOOLEAN, lsorbit \in BOOLEAN, nchannels \in {1, 2},
          functional \in {"pbe", "hse"} :
          dataset = AnyFolder(ispin, lsorbit, nchannels, functional)
    /\ files = NoFiles
    /\ writes = [kind \in Kinds |-> 0]
    /\ band = [status |-> "none"]
    /\ constructions = None
    /\ poscar = None /\ element_array = None /\ atoms_array = None /\ spd_array = None
    /\ orbital_array = None
    /\ unfold = None /\ hse = None /\ kpoints = None /\ eigenvalues = None
    /\ kpoints_file = None /\ symm_kpath = None /\ kpath = None /\ inv_matrix = None
    /\ constructed = None /\ custom_kpath = None /\ custom_kpath_inds = None
    /\ custom_kpath_flip = None /\ kdists = None /\ plotted = None /\ ticks = None
    /\ interpolate = None /\ new_n = None /\ spectral_weights = None
    /\ spin_projections = None /\ K_indices = None /\ drawn = None /\ projected = None

\* Band(folder, spin=...) without projections: only eigenvalues.npy is used
ConstructPlainBand ==
    /\ \E p \in {x \in Params(dataset) : ~x.projected /\ x.soc_axis = "None"} :
        \E r \in {BandInit(dataset, files, p)} :
            /\ band' = r.band
            /\ files' = r.files
            /\ writes' = [kind \in Kinds |->
                            IF kind \in r.written THEN writes[kind] + 1 ELSE writes[kind]]
    /\ UNCHANGED <<dataset, constructions>>
    /\ UNCHANGED <<pathVars, aggVars>>

NextLayout == ConstructPlainBand

SpecLayout == InitLayout /\ [][NextLayout]_vars

(* ---------------- unfolded paths of any length ---------------- *)
MaxUnfoldN == 3      \* n: 1..MaxUnfoldN intervals a leg
MaxUnfoldLegs == 3   \* len(kpath): 1..MaxUnfoldLegs legs

\* a supercell folder, to be unfolded along legs legs of n intervals each
InitUnfold ==
    /\ \E run \in Runs, n \in 1..MaxUnfoldN, legs \in 1..MaxUnfoldLegs :
          dataset = [Folder(run, "supercell", MaxAtoms, NGroups) EXCEPT !.n = n, !.legs = legs]
    /\ files = NoFiles
    /\ writes = [kind \in Kinds |-> 0]
    /\ band = [status |-> "none"]
    /\ constructions = None
    /\ poscar = None /\ element_array = None /\ atoms_array = None /\ spd_array = None
    /\ orbital_array = None
    /\ unfold = None /\ hse = None /\ kpoints = None /\ eigenvalues = None
    /\ kpoints_file = None /\ symm_kpath = None /\ kpath = None /\ inv_matrix = None
    /\ constructed = None /\ custom_kpath = None /\ custom_kpath_inds = None
    /\ custom_kpath_flip = None /\ kdists = None /\ plotted = None /\ ticks = None
    /\ interpolate = None /\ new_n = None /\ spectral_weights = None
    /\ spin_projections = None /\ K_indices = None /\ drawn = None /\ projected = None

NextUnfold == ConstructPlainBand

SpecUnfold == InitUnfold /\ [][NextUnfold]_vars

(* ---------------- two constructions on one folder ---------------- *)
Constructors == {1, 2}

\* the content of a file np.save has opened and not yet closed
Partial == <<"Partial">>

\* the arguments of a construction that uses eigenvalues.npy (or the unfolded
\* file) only
BandsOnlyParams(ds) ==
    {x \in Params(ds) : ~x.projected /\ x.soc_axis = "None" /\ x.stretch_factor = 1}

\* two processes have entered Band.__init__ on a folder without cache files; each
\* is about to call os.path.isfile
InitRace ==
    /\ \E run \in Runs, functional \in Functionals :
          dataset = Folder(run, functional, MaxAtoms, NGroups)
    /\ constructions \in
          [Constructors -> [pc : {"isfile"}, params : BandsOnlyParams(dataset),
                            pre_loaded_bands : {FALSE}, loaded : {None},
                            band : {[status |-> "none"]}]]
    /\ files = NoFiles
    /\ writes = [kind \in Kinds |-> 0]
    /\ band = [status |-> "none"]
    /\ poscar = None /\ element_array = None /\ atoms_array = None /\ spd_array = None
    /\ orbital_array = None
    /\ unfold = None /\ hse = None /\ kpoints = None /\ eigenvalues = None
    /\ kpoints_file = None /\ symm_kpath = None /\ kpath = None /\ inv_matrix = None
    /\ constructed = None /\ custom_kpath = None /\ custom_kpath_inds = None
    /\ custom_kpath_flip = None /\ kdists = None /\ plotted = None /\ ticks = None
    /\ interpolate = None /\ new_n = None /\ spectral_weights = None
    /\ spin_projections = None /\ K_indices = None /\ drawn = None /\ projected = None

\* the array the construction with arguments p computes on a miss
Computed(ds, p) ==
    IF p.unfold THEN spectral_weight(ds)
    ELSE MergedRaw(ds, ds.efermi + p.shift_efermi, ds.LHFCALC /\ ~p.unfold)

\* self.pre_loaded_bands = os.path.isfile(...): the file exists from the moment
\* np.save has opened it
IsFile ==
    /\ \E c \in Constructors :
        /\ constructions[c].pc = "isfile"
        /\ constructions' =
              [constructions EXCEPT
                 ![c].pre_loaded_bands = PreLoaded(files, BandsKind(constructions[c].params)),
                 ![c].pc = IF PreLoaded(files, BandsKind(constructions[c].params))
                           THEN "load" ELSE "save"]
    /\ UNCHANGED <<dataset, files, writes, band>>
    /\ UNCHANGED <<pathVars, aggVars>>

\* np.load of the file as it is now: a file that is not written to its end cannot
\* be read
Load ==
    /\ \E c \in Constructors :
        /\ constructions[c].pc = "load"
        /\ \E content \in {files[BandsKind(constructions[c].params)]} :
            constructions' =
              [constructions EXCEPT
                 ![c].pc = "done",
                 ![c].loaded = IF content = Partial THEN Partial ELSE "whole",
                 ![c].band =
                    IF content = Partial
                    THEN [NewBand(dataset, constructions[c].params)
                            EXCEPT !.status = "ValueError"]
                    ELSE BandsLoaded(dataset, files, constructions[c].params, TRUE,
                                     content).band]
    /\ UNCHANGED <<dataset, files, writes, band>>
    /\ UNCHANGED <<pathVars, aggVars>>

\* np.save opens the file for writing: it exists and is empty
SaveOpen ==
    /\ \E c \in Constructors :
        /\ constructions[c].pc = "save"
        /\ files' = [files EXCEPT ![BandsKind(constructions[c].params)] = Partial]
        /\ writes' = [writes EXCEPT ![BandsKind(constructions[c].params)] = @ + 1]
        /\ constructions' = [constructions EXCEPT ![c].pc = "saving"]
    /\ UNCHANGED <<dataset, band>>
    /\ UNCHANGED <<pathVars, aggVars>>

\* np.save has written the array and closed the file; the construction goes on
\* with the array it computed
SaveClose ==
    /\ \E c \in Constructors :
        /\ constructions[c].pc = "saving"
        /\ \E band_data \in {Computed(dataset, constructions[c].params)} :
            /\ files' = [files EXCEPT ![BandsKind(constructions[c].params)] = band_data]
            /\ constructions' =
                  [constructions EXCEPT
                     ![c].pc = "done",
                     ![c].band = BandsLoaded(dataset, files, constructions[c].params,
                                             FALSE, band_data).band]
    /\ UNCHANGED <<dataset, writes, band>>
    /\ UNCHANGED <<pathVars, aggVars>>

NextRace == IsFile \/ Load \/ SaveOpen \/ SaveClose

SpecRace == InitRace /\ [][NextRace]_vars

(* ---------------- a folder with a cache file it did not write ---------------- *)
\* the array a construction on the folder content ds0 stores as kind, or None
StoredBy(ds0, kind) ==
    IF kind = "eigenvalues"
    THEN (IF ds0.supercell THEN None ELSE MergedRaw(ds0, ds0.efermi, ds0.LHFCALC))
    ELSE IF kind = "unfolded_eigenvalues"
    THEN (IF ds0.supercell THEN spectral_weight(ds0) ELSE None)
    ELSE IF kind = "projected_eigenvalues"
    THEN (IF ProjectedRaw(ds0) = <<"ValueError">> THEN None ELSE ProjectedRaw(ds0))
    ELSE (IF ds0.LSORBIT THEN SpinAxisRaw(ds0) ELSE None)

\* the folder ds holds one cache file left by a run with other settings, or an
\* unreadable one; every other cache file is absent
InitStale ==
    /\ \E run \in Runs, functional \in Functionals, kind \in Kinds :
          \E content \in {Corrupt} \cup
                  {StoredBy(Folder(run0, functional0, MaxAtoms, NGroups), kind) :
                      run0 \in Runs, functional0 \in Functionals} :
              /\ content # None
              /\ dataset = Folder(run, functional, MaxAtoms, NGroups)
              /\ files = [NoFiles EXCEPT ![kind] = content]
    /\ writes = [kind \in Kinds |-> 0]
    /\ band = [status |-> "none"]
    /\ constructions = None
    /\ poscar = None /\ element_array = None /\ atoms_array = None /\ spd_array = None
    /\ orbital_array = None
    /\ unfold = None /\ hse = None /\ kpoints = None /\ eigenvalues = None
    /\ kpoints_file = None /\ symm_kpath = None /\ kpath = None /\ inv_matrix = None
    /\ constructed = None /\ custom_kpath = None /\ custom_kpath_inds = None
    /\ custom_kpath_flip = None /\ kdists = None /\ plotted = None /\ ticks = None
    /\ interpolate = None /\ new_n = None /\ spectral_weights = None
    /\ spin_projections = None /\ K_indices = None /\ drawn = None /\ projected = None

NextStale == ConstructBand

SpecStale == InitStale /\ [][NextStale]_vars

(* ======================= the projection aggregator ======================= *)
(* ---------------- bounds of the model ---------------- *)
MaxBlocks == 3      \* element blocks of a POSCAR: 1..MaxBlocks
MaxSites == 4       \* atoms of a POSCAR in all: 1..MaxSites

(* ---------------- structures ---------------- *)
\* two elements without f orbitals; adjoining blocks of a POSCAR differ in symbol
Symbols == <<"In", "As">>
\* a lanthanide and an element without f orbitals
FSymbols == <<"La", "As">>

\* the elements _check_f_orb looks for
f_elements ==
    {"La", "Ac", "Ce", "Tb", "Th", "Pr", "Dy", "Pa", "Nd", "Ho", "U", "Pm", "Er", "Np",
     "Sm", "Tm", "Pu", "Eu", "Yb", "Am", "Gd", "Lu"}

\* self.forbitals
_check_f_orb(pos) == \E i \in DOMAIN pos.site_symbols : pos.site_symbols[i] \in f_elements

Total(natoms) == LET F(i) == natoms[i] IN SumOver(F, Size(natoms), 0)

StructuresOf(symbols) ==
    UNION {
        {[site_symbols |-> [i \in Range0(nb) |-> symbols[(i % 2) + 1]], natoms |-> na] :
            na \in {x \in [Range0(nb) -> 1..MaxAtoms] : Total(x) <= MaxSites}} :
        nb \in 1..MaxBlocks}

Structures == StructuresOf(Symbols) \cup StructuresOf(FSymbols)

\* the orbital columns of an lm-decomposed PROCAR of the structure
ProcarOrbitals(pos) == IF _check_f_orb(pos) THEN NOrbitalsF ELSE NOrbitals

\* the symbols of a structure, each once, in the order of their first block
DistinctSymbols(pos) ==
    LET syms == pos.site_symbols
        firsts == {i \in DOMAIN syms : \A j \in DOMAIN syms : j < i => syms[j] # syms[i]}
    IN  Take(syms, Array(SortedArrayOf(firsts)))

(* ---------------- Band._sum_elements, Band._sum_atoms ---------------- *)
RECURSIVE BlockOf(_, _, _)
\* the block that holds site idx, counting from block i
BlockOf(natoms, i, idx) ==
    IF idx < natoms[i] THEN i ELSE BlockOf(natoms, i + 1, idx - natoms[i])

\* a variant that lists every block once
element_list_blocks(pos) == pos.site_symbols
\* np.hstack([[symbols[i] for j in range(natoms[i])] for i in range(len(symbols))])
element_list(pos) ==
    [j \in Range0(Total(pos.natoms)) |-> pos.site_symbols[BlockOf(pos.natoms, 0, j)]]

\* np.where(np.isin(el, element))[0] for every element
IndicesIn(el, elements) ==
    [e \in DOMAIN elements |-> Array(SortedArrayOf({j \in DOMAIN el : el[j] = elements[e]}))]

\* [np.where(np.isin(element_list, element))[0] for element in elements]
element_indices(pos, elements) == IndicesIn(element_list(pos), elements)

\* a variant whose p block misses its last column
spd_indices_short(forbitals) ==
    IF ~forbitals
    THEN [g \in Range0(3) |-> [o \in Range0(NOrbitals) |->
            IF g = 0 THEN o = 0 ELSE IF g = 1 THEN o \in 1..2 ELSE o >= 4]]
    ELSE [g \in Range0(4) |-> [o \in Range0(NOrbitalsF) |->
            IF g = 0 THEN o = 0 ELSE IF g = 1 THEN o \in 1..2
            ELSE IF g = 2 THEN o \in 4..8 ELSE o >= 9]]
\* the boolean masks of the s, p, d (and f) columns
spd_indices(forbitals) ==
    IF ~forbitals
    THEN [g \in Range0(3) |-> [o \in Range0(NOrbitals) |->
            IF g = 0 THEN o = 0 ELSE IF g = 1 THEN o \in 1..3 ELSE o >= 4]]
    ELSE [g \in Range0(4) |-> [o \in Range0(NOrbitalsF) |->
            IF g = 0 THEN o = 0 ELSE IF g = 1 THEN o \in 1..3
            ELSE IF g = 2 THEN o \in 4..8 ELSE o >= 9]]

spd_relations == [s |-> 0, p |-> 1, d |-> 2, f |-> 3]

\* np.sum(x[mask]) for a boolean mask of the length of x
SumMasked(x, mask) == LET F(o) == IF mask[o] THEN x[o] ELSE 0 IN SumOver(F, Size(x), 0)
\* np.sum(x)
SumAll(x) == LET F(o) == x[o] IN SumOver(F, Size(x), 0)

\* np.sum(pe[:, :, ind], axis=2) for every index array of inds, on a new axis 2
ElementOrbitals(pe, inds) ==
    [b \in DOMAIN pe |-> [q \in DOMAIN pe[b] |-> [e \in DOMAIN inds |->
        [o \in DOMAIN pe[b][q][0] |->
            LET F(j) == pe[b][q][inds[e][j]][o] IN SumOver(F, Size(inds[e]), 0)]]]]

\* the sums of the last axis of a under every mask, on a new last axis
SpdGroups(a, masks) ==
    [b \in DOMAIN a |-> [q \in DOMAIN a[b] |-> [e \in DOMAIN a[b][q] |->
        [g \in DOMAIN masks |-> SumMasked(a[b][q][e], masks[g])]]]]

\* np.sum(a, axis=3)
SumLast(a) ==
    [b \in DOMAIN a |-> [q \in DOMAIN a[b] |-> [e \in DOMAIN a[b][q] |-> SumAll(a[b][q][e])]]]

\* a boolean mask indexes an axis of its own length only
MaskFits(pe, masks) == Size(pe[0][0][0]) = Size(masks[0])

\* _sum_elements(elements, orbitals, spd) on projected_eigenvalues[band][k][atom][orbital]
_sum_elements(pe, pos, elements, orbitals, spd) ==
    IF orbitals THEN ElementOrbitals(pe, element_indices(pos, elements))
    ELSE IF spd
    THEN IF ~MaskFits(pe, spd_indices(_check_f_orb(pos))) THEN IndexError
         ELSE SpdGroups(ElementOrbitals(pe, element_indices(pos, elements)),
                        spd_indices(_check_f_orb(pos)))
    ELSE SumLast(ElementOrbitals(pe, element_indices(pos, elements)))

\* _sum_atoms with the restriction of line 781 in force (the source has it as a comment)
_sum_atoms_restricted(pe, forbitals, atoms, spd) ==
    IF spd
    THEN IF ~MaskFits(pe, spd_indices(forbitals)) THEN IndexError
         ELSE [b \in DOMAIN pe |-> [q \in DOMAIN pe[b] |-> [j \in DOMAIN atoms |->
                 SpdGroups(pe, spd_indices(forbitals))[b][q][atoms[j]]]]]
    ELSE [b \in DOMAIN pe |-> [q \in DOMAIN pe[b] |->
             [r \in Range0(1) |-> [j \in DOMAIN atoms |-> SumAll(pe[b][q][atoms[j]])]]]]

\* _sum_atoms(atoms, spd); atoms_array[:, :, [atoms]] has an axis of length 1
\* before the atom axis
_sum_atoms(pe, forbitals, atoms, spd) ==
    IF spd
    THEN IF ~MaskFits(pe, spd_indices(forbitals)) THEN IndexError
         ELSE SpdGroups(pe, spd_indices(forbitals))
    ELSE IF \E j \in DOMAIN atoms : ~PyInRange(pe[0][0], atoms[j]) THEN IndexError
    ELSE [b \in DOMAIN pe |-> [q \in DOMAIN pe[b] |->
             [r \in Range0(1) |-> [j \in DOMAIN atoms |->
                 SumAll(PyIndex(pe[b][q], atoms[j]))]]]]

\* np.sum(pe, axis=2)
OrbitalContributions(pe) ==
    [b \in DOMAIN pe |-> [q \in DOMAIN pe[b] |-> [o \in DOMAIN pe[b][q][0] |->
        LET F(a) == pe[b][q][a][o] IN SumOver(F, Size(pe[b][q]), 0)]]]

\* the sums of the last axis of oc under every mask
SpdContributions(oc, masks) ==
    [b \in DOMAIN oc |-> [q \in DOMAIN oc[b] |->
        [g \in DOMAIN masks |-> SumMasked(oc[b][q], masks[g])]]]

\* a[:, :, idx]
TakeLast(a, idx) == [b \in DOMAIN a |-> [q \in DOMAIN a[b] |-> Take(a[b][q], idx)]]

\* a dict lookup with a key the dict does not hold
KeyError == <<"KeyError">>

\* _sum_orbitals(orbitals): orbital_contributions[:, :, [orbitals]] has an axis of
\* length 1 before the orbital axis; a negative index counts from the end
_sum_orbitals(pe, orbitals) ==
    IF \E j \in DOMAIN orbitals : ~PyInRange(pe[0][0][0], orbitals[j]) THEN IndexError
    ELSE [b \in DOMAIN pe |-> [q \in DOMAIN pe[b] |->
             [r \in Range0(1) |-> [j \in DOMAIN orbitals |->
                 PyIndex(OrbitalContributions(pe)[b][q], orbitals[j])]]]]

\* [self.spd_relations[orb] for orb in spd]
RelationsOf(spd) == [j \in DOMAIN spd |-> spd_relations[spd[j]]]

\* _sum_spd(spd) on projected_eigenvalues[band][k][atom][orbital]; spd is a
\* string of the letters s, p, d, f
_sum_spd(pe, forbitals, spd) ==
    IF ~MaskFits(pe, spd_indices(forbitals)) THEN IndexError
    ELSE IF \E j \in DOMAIN spd : spd[j] \notin DOMAIN spd_relations THEN KeyError
    ELSE IF \E j \in DOMAIN spd : spd_relations[spd[j]] >= Size(spd_indices(forbitals))
    THEN IndexError
    ELSE TakeLast(SpdContributions(OrbitalContributions(pe), spd_indices(forbitals)),
                  RelationsOf(spd))

(* ---------------- actions ---------------- *)
\* the element lists and atom lists a caller passes
ElementArgs(pos) == {DistinctSymbols(pos), Array(<<pos.site_symbols[0]>>)}
AllAtoms(pos) == [j \in Range0(Total(pos.natoms)) |-> j]
AtomArgs(pos) == {AllAtoms(pos), Array(<<0>>), Array(<<Total(pos.natoms) - 1, 0>>)}
\* the orbital strings a caller passes: every group of the structure, two groups
\* out of order, and the f group
AllGroups(pos) ==
    IF _check_f_orb(pos) THEN Array(<<"s", "p", "d", "f">>) ELSE Array(<<"s", "p", "d">>)
SpdArgs(pos) == {AllGroups(pos), Array(<<"d", "s">>), Array(<<"f">>)}

\* the arguments of the Band that is aggregated
AggParams(ds) ==
    [spin |-> "up", projected |-> TRUE, unfold |-> FALSE,
     soc_axis |-> IF ds.LSORBIT THEN "z" ELSE "None",
     shift_efermi |-> 0, stretch_factor |-> 1]

\* a projected Band of a folder whose cache is empty
InitAgg ==
    /\ \E pos \in Structures, run \in {"plain", "soc"}, functional \in {"pbe", "hse"} :
         \E ds \in {Folder(run, functional, Total(pos.natoms), ProcarOrbitals(pos))} :
            \E r \in {BandInit(ds, NoFiles, AggParams(ds))} :
                /\ poscar = pos
                /\ dataset = ds
                /\ band = r.band
                /\ constructions = None
                /\ files = r.files
                /\ writes = [kind \in Kinds |-> IF kind \in r.written THEN 1 ELSE 0]
    /\ element_array = [value |-> NotCalled]
    /\ atoms_array = [value |-> NotCalled]
    /\ spd_array = [value |-> NotCalled]
    /\ orbital_array = [value |-> NotCalled]
    /\ unfold = None /\ hse = None /\ kpoints = None /\ eigenvalues = None
    /\ kpoints_file = None /\ symm_kpath = None /\ kpath = None /\ inv_matrix = None
    /\ constructed = None /\ custom_kpath = None /\ custom_kpath_inds = None
    /\ custom_kpath_flip = None /\ kdists = None /\ plotted = None /\ ticks = None
    /\ interpolate = None /\ new_n = None /\ spectral_weights = None
    /\ spin_projections = None /\ K_indices = None /\ drawn = None /\ projected = None

SumElements ==
    /\ \E elements \in ElementArgs(poscar), variant \in {"sum", "orbitals", "spd"} :
         element_array' =
            [elements |-> elements, orbitals |-> variant = "orbitals", spd |-> variant = "spd",
             value |-> _sum_elements(band.projected_eigenvalues, poscar, elements,
                                     variant = "orbitals", variant = "spd")]
    /\ UNCHANGED <<poscar, atoms_array, spd_array, orbital_array>>
    /\ UNCHANGED <<pathVars, cacheVars>>

SumAtoms ==
    /\ \E atoms \in AtomArgs(poscar), spd \in BOOLEAN :
         atoms_array' =
            [atoms |-> atoms, spd |-> spd,
             value |-> _sum_atoms(band.projected_eigenvalues, _check_f_orb(poscar), atoms, spd)]
    /\ UNCHANGED <<poscar, element_array, spd_array, orbital_array>>
    /\ UNCHANGED <<pathVars, cacheVars>>

SumSpd ==
    /\ \E spd \in SpdArgs(poscar) :
         spd_array' =
            [spd |-> spd,
             value |-> _sum_spd(band.projected_eigenvalues, _check_f_orb(poscar), spd)]
    /\ UNCHANGED <<poscar, element_array, atoms_array, orbital_array>>
    /\ UNCHANGED <<pathVars, cacheVars>>

NextAgg == SumElements \/ SumAtoms \/ SumSpd

SpecAgg == InitAgg /\ [][NextAgg]_vars

(* ---------------- aggregations with any selector ---------------- *)
\* selectors inside and outside the dataset: the first and the last index, the
\* index before the first and the index after the last; a symbol of the structure
\* and one that is not; a group letter and a letter that is none
AnyAtomArgs(pos) ==
    {Array(<<i>>) : i \in {0, Total(pos.natoms) - 1, -1, Total(pos.natoms)}}
AnyOrbitalArgs(pos) ==
    {Array(<<i>>) : i \in {0, ProcarOrbitals(pos) - 1, -1, ProcarOrbitals(pos)}}
AnyElementArgs(pos) == {Array(<<pos.site_symbols[0]>>), Array(<<"Xx">>)}
AnySpdArgs(pos) == {Array(<<"s">>), Array(<<"g">>)}

\* a projected Band of a folder of at most two element blocks
InitSelect ==
    /\ InitAgg
    /\ Size(poscar.site_symbols) <= 2
    /\ ~dataset.LHFCALC

SelectElements ==
    /\ \E elements \in AnyElementArgs(poscar) :
         element_array' =
            [elements |-> elements, orbitals |-> FALSE, spd |-> FALSE,
             value |-> _sum_elements(band.projected_eigenvalues, poscar, elements,
                                     FALSE, FALSE)]
    /\ UNCHANGED <<poscar, atoms_array, spd_array, orbital_array>>
    /\ UNCHANGED <<pathVars, cacheVars>>

SelectAtoms ==
    /\ \E atoms \in AnyAtomArgs(poscar) :
         atoms_array' =
            [atoms |-> atoms, spd |-> FALSE,
             value |-> _sum_atoms(band.projected_eigenvalues, _check_f_orb(poscar),
                                  atoms, FALSE)]
    /\ UNCHANGED <<poscar, element_array, spd_array, orbital_array>>
    /\ UNCHANGED <<pathVars, cacheVars>>

SelectOrbitals ==
    /\ \E orbitals \in AnyOrbitalArgs(poscar) :
         orbital_array' =
            [orbitals |-> orbitals,
             value |-> _sum_orbitals(band.projected_eigenvalues, orbitals)]
    /\ UNCHANGED <<poscar, element_array, atoms_array, spd_array>>
    /\ UNCHANGED <<pathVars, cacheVars>>

SelectSpd ==
    /\ \E spd \in AnySpdArgs(poscar) :
         spd_array' =
            [spd |-> spd,
             value |-> _sum_spd(band.projected_eigenvalues, _check_f_orb(poscar), spd)]
    /\ UNCHANGED <<poscar, element_array, atoms_array, orbital_array>>
    /\ UNCHANGED <<pathVars, cacheVars>>

NextSelect == SelectElements \/ SelectAtoms \/ SelectOrbitals \/ SelectSpd

SpecSelect == InitSelect /\ [][NextSelect]_vars

(* ======================= claims: the k-path ======================= *)
Raised(x) == x = IndexError
Returned(x) == x # NotCalled /\ x # IndexError
Last(a) == a[Size(a) - 1]
segmentCount == Size(slices)
InvalidEntry(i) == np_abs(i) < 1 \/ np_abs(i) > segmentCount

\* C1 (as claimed): whenever some entry i of custom_kpath has abs(i) outside
\* [1, segmentCount], _get_k_distance and plot_plain end in an error and resolve
\* no such entry to a segment.
C1_InvalidEntryIsFatal ==
    (constructed /\ custom_kpath # None
       /\ \E j \in DOMAIN custom_kpath : InvalidEntry(custom_kpath[j]))
    => (~Returned(kdists) /\ ~Returned(plotted))

\* C2: every non-zero entry i of custom_kpath is resolved, in order, to the segment
\* id abs(i) - 1 and the flip flag (i < 0); [2, -1] resolves to [1, 0], [False, True].
C2_CustomPathResolution ==
    (constructed /\ custom_kpath # None) =>
        /\ DOMAIN custom_kpath_inds = DOMAIN custom_kpath
        /\ DOMAIN custom_kpath_flip = DOMAIN custom_kpath
        /\ \A j \in DOMAIN custom_kpath :
              custom_kpath[j] # 0 =>
                 /\ custom_kpath_inds[j] = np_abs(custom_kpath[j]) - 1
                 /\ custom_kpath_flip[j] = (custom_kpath[j] < 0)
        /\ custom_kpath = Array(<<2, -1>>) =>
              /\ custom_kpath_inds = Array(<<1, 0>>)
              /\ custom_kpath_flip = Array(<<FALSE, TRUE>>)

C2_Witness ==
    constructed /\ segmentCount = 2 /\ custom_kpath = Array(<<2, -1>>)

\* C3: in one plot, the eigenvalue block taken for entry -s is the block taken for
\* entry +s reversed along k, band by band; reversing it again gives the forward
\* block, with the same k-points and none lost or repeated.
OppositeEntries(j1, j2) ==
    custom_kpath[j1] < 0 /\ custom_kpath[j2] = -custom_kpath[j1]

C3_ReversalInvolution ==
    (Returned(plotted) /\ custom_kpath # None) =>
        \A j1, j2 \in DOMAIN custom_kpath :
            OppositeEntries(j1, j2) =>
                /\ DOMAIN plotted[j1].eigenvalues = DOMAIN plotted[j2].eigenvalues
                /\ \A b \in DOMAIN plotted[j1].eigenvalues :
                      LET rev == plotted[j1].eigenvalues[b]
                          fwd == plotted[j2].eigenvalues[b]
                      IN  /\ Size(rev) = Size(fwd)
                          /\ \A q \in DOMAIN fwd : rev[Size(fwd) - 1 - q] = fwd[q]
                          /\ np_flip(rev) = fwd

C3_Witness ==
    /\ Returned(plotted) /\ custom_kpath # None
    /\ \E j1, j2 \in DOMAIN custom_kpath :
          /\ OppositeEntries(j1, j2)
          /\ \E b \in DOMAIN plotted[j1].eigenvalues :
                /\ Size(plotted[j1].eigenvalues[b]) >= 3
                /\ plotted[j1].eigenvalues[b] # plotted[j2].eigenvalues[b]

\* C7: every distance array is non-decreasing, the first one starts at 0 and every
\* later one starts no lower than the one before it ends.
C7_DistancesNonDecreasing ==
    Returned(kdists) =>
        /\ \A j \in DOMAIN kdists :
              \A q \in DOMAIN kdists[j] : q > 0 => kdists[j][q - 1] <= kdists[j][q]
        /\ kdists[0][0] = 0
        /\ \A j \in DOMAIN kdists : j > 0 => kdists[j][0] >= Last(kdists[j - 1])

C7_Witness ==
    /\ Returned(kdists) /\ Size(kdists) >= 2
    /\ Last(kdists[0]) > 0 /\ Last(kdists[1]) > Last(kdists[0])

\* C8: one distance array per entry of the resolved path (natural or custom, repeats
\* allowed), each with the points of its segment; entry j+1 starts at the final
\* value of entry j, and the final value of the last array is the sum of the spans.
Span(a) == Last(a) - a[0]

C8_ChainedPerEntry ==
    Returned(kdists) =>
        /\ DOMAIN kdists = DOMAIN PathIndex
        /\ \A j \in DOMAIN kdists :
              Size(kdists[j]) = Size(PySlice(kpoints, PyIndex(slices, PathIndex[j])))
        /\ kdists[0][0] = 0
        /\ \A j \in DOMAIN kdists : j > 0 => kdists[j][0] = Last(kdists[j - 1])
        /\ Last(Last(kdists)) = SumTo([j \in DOMAIN kdists |-> Span(kdists[j])], Size(kdists))

C8_Witness ==
    /\ Returned(kdists) /\ custom_kpath # None /\ Size(kdists) >= 2
    /\ custom_kpath[0] = custom_kpath[1]
    /\ Span(kdists[0]) > 0 /\ Last(kdists[1]) = 2 * Span(kdists[0])

(* ======================= claims: the derived-data cache ======================= *)
Built == band.status = "ok"
Hit(kind) == kind \in band.pre_loaded

\* the Band the same construction leaves when the folder holds no cache file
Fresh == BandInit(dataset, NoFiles, band.params)

\* p differs from the parameters of the Band at most in spin and soc_axis
SameButSelection(p) ==
    [p EXCEPT !.spin = band.params.spin, !.soc_axis = band.params.soc_axis] = band.params

\* C4 (as claimed): a Band constructed when a cache file of a kind exists has the
\* eigenvalues, k-points and projection weights of a Band constructed with the same
\* parameters and no cache file, and what a construction stores does not depend on
\* its spin or soc_axis.
C4_CacheHitEqualsMiss ==
    (band.status # "none" /\ band.pre_loaded # {}) =>
        /\ band.status = Fresh.band.status
        /\ band.eigenvalues = Fresh.band.eigenvalues
        /\ band.kpoints = Fresh.band.kpoints
        /\ band.projected_eigenvalues = Fresh.band.projected_eigenvalues
        /\ \A p \in Params(dataset) :
              SameButSelection(p) =>
                 \A kind \in Kinds :
                    LET other == BandInit(dataset, NoFiles, p).files[kind]
                    IN  (other # None /\ Fresh.files[kind] # None) => other = Fresh.files[kind]

\* C5: over any sequence of constructions on one folder every cache file is saved
\* at most once; once a kind is stored no later construction changes or saves it,
\* and a construction that uses the kind loads it.
C5_WrittenAtMostOnce ==
    /\ [](\A kind \in Kinds : writes[kind] <= 1)
    /\ [][\A kind \in Kinds :
             files[kind] # None =>
                /\ files'[kind] = files[kind]
                /\ writes'[kind] = writes[kind]
                /\ (band'.status = "ok" /\ kind = "eigenvalues" /\ ~band'.params.unfold)
                      => kind \in band'.pre_loaded
                /\ (band'.projected_eigenvalues # None /\ kind = "projected_eigenvalues")
                      => kind \in band'.pre_loaded
                /\ (band'.spin_projections # None /\ kind = "spin_projections")
                      => kind \in band'.pre_loaded]_vars

C5_Witness ==
    /\ Built
    /\ \A kind \in {"eigenvalues", "projected_eigenvalues", "spin_projections"} :
          writes[kind] = 1 /\ Hit(kind)

\* the zero-weight k-points of the folder, and a Band of a hybrid-functional run
zw == zero_weight(dataset)
Hybrid == Built /\ band.hse

\* every array of the Band holds the zero-weight k-points, each once and in order
FilteredOnce ==
    LET par == band.params
        ch == IF dataset.nchannels > 1 THEN SpinIndex(par.spin) ELSE 0
        proj == _load_projected_bands(dataset, ProjectedRaw(dataset), par.spin, par.soc_axis, FALSE)
        axis == _load_soc_spin_projection(dataset, SpinAxisRaw(dataset), par.spin, par.soc_axis, FALSE)
    IN  /\ band.kpoints = Take(eigenval_kpoints(dataset), zw)
        /\ \A b \in DOMAIN band.eigenvalues :
              /\ DOMAIN band.eigenvalues[b] = DOMAIN zw
              /\ \E shift \in {0, 1} : \A j \in DOMAIN zw :
                    band.eigenvalues[b][j] =
                        (Energy(ch, zw[j], b) - (dataset.efermi + shift)) * par.stretch_factor
        /\ band.projected_eigenvalues # None => band.projected_eigenvalues = TakeK(proj, zw)
        /\ band.spin_projections # None =>
              \A b \in DOMAIN band.spin_projections :
                 /\ DOMAIN band.spin_projections[b] = DOMAIN zw
                 /\ \A j \in DOMAIN zw :
                       band.spin_projections[b][j].num = axis[b][zw[j]].num

\* the k axis of a cache file
StoredKpoints(kind) == Size(files[kind][0])

\* C6 (as claimed): for a hybrid-functional dataset the zero-weight filter is applied
\* exactly once to eigenvalues, k-points, projection weights and spin-axis
\* projections on the miss and on the hit path, and before the array is stored:
\* every cache file of every kind holds the zero-weight k-points only.
C6_FilteredBeforeStore ==
    Hybrid =>
        /\ FilteredOnce
        /\ \A kind \in Kinds : files[kind] # None => StoredKpoints(kind) = Size(zw)

\* C6 (amended): the filter is applied exactly once to all four arrays on both
\* paths; eigenvalues.npy is stored filtered, while projected_eigenvalues.npy and
\* spin_projections.npy are stored with every k-point of PROCAR and are filtered
\* after each load.
C6_FilteredOnceOnlyBandsStoredFiltered ==
    Hybrid =>
        /\ FilteredOnce
        /\ StoredKpoints("eigenvalues") = Size(zw)
        /\ files["projected_eigenvalues"] # None =>
              files["projected_eigenvalues"] = ProjectedRaw(dataset)
        /\ files["spin_projections"] # None =>
              files["spin_projections"] = SpinAxisRaw(dataset)
        /\ \A kind \in {"projected_eigenvalues", "spin_projections"} :
              files[kind] # None => StoredKpoints(kind) = NKpts

C6_Witness ==
    /\ Hybrid
    /\ Size(zw) < NKpts
    /\ band.projected_eigenvalues # None /\ band.spin_projections # None
    /\ Hit("eigenvalues") /\ Hit("projected_eigenvalues") /\ Hit("spin_projections")

\* the signed spin-axis array a construction separates
SignedAxis(bd) ==
    HseFilter(Selected(SpinAxisRaw(dataset), AxisIndex(bd.params.soc_axis)), dataset, bd.hse)

HasAxis(bd) == bd.status = "ok" /\ bd.spin_projections # None

\* two constructions in a row on one folder and one axis, spin up then spin down
UpThenDown(up, down) ==
    /\ HasAxis(up) /\ HasAxis(down)
    /\ up.params.spin = "up" /\ down.params.spin = "down"
    /\ up.params.soc_axis = down.params.soc_axis

NonNegative(x) == x.den > 0 /\ x.num >= 0

\* C10 (as claimed): the 'up' and the 'down' array of _load_soc_spin_projection are
\* non-negative at every (band, k) and up minus down is the signed array.
C10_UpMinusDownIsSigned ==
    [][UpThenDown(band, band') =>
          LET up == band.spin_projections
              down == band'.spin_projections
              signed == SignedAxis(band)
          IN  \A b \in DOMAIN signed : \A q \in DOMAIN signed[b] :
                 /\ NonNegative(up[b][q]) /\ NonNegative(down[b][q])
                 /\ up[b][q].den = down[b][q].den
                 /\ up[b][q].num - down[b][q].num = signed[b][q] * up[b][q].den]_vars

\* C10 (amended): for a signed array with a non-zero entry, the 'up' and the 'down'
\* array are non-negative, both are divided by the largest magnitude of the signed
\* array, and up minus down is the signed array divided by that magnitude.
C10_UpMinusDownIsSignedOverMax ==
    [][UpThenDown(band, band') =>
          LET up == band.spin_projections
              down == band'.spin_projections
              signed == SignedAxis(band)
              largest == SetMax({np_abs(signed[b][q]) : b \in DOMAIN signed, q \in DOMAIN signed[0]})
          IN  largest > 0 =>
                 \A b \in DOMAIN signed : \A q \in DOMAIN signed[b] :
                    /\ NonNegative(up[b][q]) /\ NonNegative(down[b][q])
                    /\ up[b][q].den = largest /\ down[b][q].den = largest
                    /\ up[b][q].num - down[b][q].num = signed[b][q]
                    /\ up[b][q].num = 0 \/ down[b][q].num = 0]_vars

C10_Witness ==
    /\ HasAxis(band) /\ band.params.spin = "down" /\ Hit("spin_projections")
    /\ LET signed == SignedAxis(band)
       IN  /\ \E b \in DOMAIN signed : \E q \in DOMAIN signed[b] : signed[b][q] > 1
           /\ \E b \in DOMAIN signed : \E q \in DOMAIN signed[b] : signed[b][q] < 0

(* ======================= claims: the projection aggregator ======================= *)
\* both sums were taken over the whole structure, orbitals summed
SummedOverAll ==
    /\ element_array.value # NotCalled /\ atoms_array.value # NotCalled
    /\ element_array.elements = DistinctSymbols(poscar)
    /\ ~element_array.orbitals /\ ~element_array.spd
    /\ atoms_array.atoms = AllAtoms(poscar) /\ ~atoms_array.spd

\* C9: _sum_elements over all element symbols of the structure, summed over the
\* element axis, equals _sum_atoms over all atoms, summed over the atom axis, at
\* every (band, k); every atom belongs to exactly one element.
C9_ElementsSumToAtoms ==
    SummedOverAll =>
        /\ \A b \in DOMAIN atoms_array.value : \A q \in DOMAIN atoms_array.value[b] :
              SumAll(element_array.value[b][q]) = SumAll(atoms_array.value[b][q][0])
        /\ DOMAIN element_array.value = DOMAIN atoms_array.value
        /\ LET inds == element_indices(poscar, element_array.elements)
           IN  \A a \in DOMAIN AllAtoms(poscar) :
                  Cardinality({e \in DOMAIN inds : \E j \in DOMAIN inds[e] : inds[e][j] = a}) = 1

C9_Witness ==
    /\ SummedOverAll
    /\ Size(poscar.site_symbols) = 3 /\ Total(poscar.natoms) = 4
    /\ \E b \in DOMAIN atoms_array.value : \E q \in DOMAIN atoms_array.value[b] :
          \A j \in DOMAIN atoms_array.value[b][q][0] : atoms_array.value[b][q][0][j] > 0

(* ======================= claims: the projection tensor ======================= *)
HasProjections == Built /\ band.projected_eigenvalues # None
AxisSelected == dataset.LSORBIT /\ band.params.soc_axis # "None"

\* the signed component of PROCAR the construction selected, at the k-points kept
SignedProjection ==
    HseFilter(Selected(ProjectedRaw(dataset), AxisIndex(band.params.soc_axis)),
              dataset, band.hse)

\* C11: every entry of the tensor of _load_projected_bands is non-negative; for a
\* spin-orbit dataset with soc_axis set an entry of the 'up' tensor is non-zero only
\* where the raw signed value is positive, of the 'down' tensor only where it is
\* negative, and a non-zero entry is the square of the raw value.
C11_SplitBySignThenSquared ==
    HasProjections =>
        LET pe == band.projected_eigenvalues
        IN  /\ \A b \in DOMAIN pe : \A q \in DOMAIN pe[b] : \A a \in DOMAIN pe[b][q] :
                  \A o \in DOMAIN pe[b][q][a] : pe[b][q][a][o] >= 0
            /\ AxisSelected =>
                  \A b \in DOMAIN pe : \A q \in DOMAIN pe[b] : \A a \in DOMAIN pe[b][q] :
                     \A o \in DOMAIN pe[b][q][a] :
                        LET raw == SignedProjection[b][q][a][o]
                        IN  /\ pe[b][q][a][o] # 0 =>
                                  /\ pe[b][q][a][o] = raw * raw
                                  /\ (band.params.spin = "up" => raw > 0)
                                  /\ (band.params.spin = "down" => raw < 0)
                            /\ (band.params.spin = "up" /\ raw > 0) => pe[b][q][a][o] # 0
                            /\ (band.params.spin = "down" /\ raw < 0) => pe[b][q][a][o] # 0

\* a 'down' tensor read from the cache file whose signed component has entries of
\* both signs
C11_Witness ==
    /\ HasProjections /\ AxisSelected /\ band.params.spin = "down"
    /\ Hit("projected_eigenvalues")
    /\ \E b \in DOMAIN SignedProjection : \E q \in DOMAIN SignedProjection[b] :
          \E a \in DOMAIN SignedProjection[b][q] :
             /\ \E o \in DOMAIN SignedProjection[b][q][a] :
                   SignedProjection[b][q][a][o] > 0 /\ band.projected_eigenvalues[b][q][a][o] = 0
             /\ \E o \in DOMAIN SignedProjection[b][q][a] :
                   SignedProjection[b][q][a][o] < -1 /\ band.projected_eigenvalues[b][q][a][o] = 4

(* ======================= claims: the orbital groups ======================= *)
\* the masks of the structure, as the set of columns of each group
GroupColumns(g) ==
    LET masks == spd_indices(_check_f_orb(poscar))
    IN  {o \in DOMAIN masks[g] : masks[g][o]}

GroupCount == Size(spd_indices(_check_f_orb(poscar)))

\* the weight of atom a summed over the full orbital axis
AtomWeight(b, q, a) == SumAll(band.projected_eigenvalues[b][q][a])

SpdCalled(slot) == slot.value # NotCalled /\ slot.spd

\* C12: the groups of _sum_spd, _sum_atoms(spd=True) and _sum_elements(spd=True) are
\* s = {0}, p = {1,2,3}, d = {4..8} and, exactly when the structure holds an f-block
\* element, f = {9..15}; every orbital column of the tensor lies in exactly one
\* group, no call with the groups of the structure raises, and at every (band, k)
\* the group weights add up to the sum over the full orbital axis.
C12_GroupsPartitionOrbitals ==
    LET pe == band.projected_eigenvalues
        inds == element_indices(poscar, element_array.elements)
    IN  /\ GroupColumns(0) = {0} /\ GroupColumns(1) = {1, 2, 3} /\ GroupColumns(2) = 4..8
        /\ GroupCount = (IF _check_f_orb(poscar) THEN 4 ELSE 3)
        /\ _check_f_orb(poscar) => GroupColumns(3) = 9..15
        /\ \A o \in DOMAIN pe[0][0][0] :
              Cardinality({g \in Range0(GroupCount) : o \in GroupColumns(g)}) = 1
        /\ SpdCalled(atoms_array) =>
              /\ atoms_array.value # IndexError
              /\ \A b \in DOMAIN pe : \A q \in DOMAIN pe[b] : \A a \in DOMAIN pe[b][q] :
                    /\ DOMAIN atoms_array.value[b][q][a] = Range0(GroupCount)
                    /\ SumAll(atoms_array.value[b][q][a]) = AtomWeight(b, q, a)
        /\ SpdCalled(element_array) =>
              /\ element_array.value # IndexError
              /\ \A b \in DOMAIN pe : \A q \in DOMAIN pe[b] : \A e \in DOMAIN inds :
                    LET F(j) == AtomWeight(b, q, inds[e][j])
                    IN  SumAll(element_array.value[b][q][e]) = SumOver(F, Size(inds[e]), 0)
        /\ (spd_array.value # NotCalled /\ spd_array.spd = AllGroups(poscar)) =>
              /\ spd_array.value # IndexError
              /\ \A b \in DOMAIN pe : \A q \in DOMAIN pe[b] :
                    LET F(a) == AtomWeight(b, q, a)
                    IN  SumAll(spd_array.value[b][q]) = SumOver(F, Size(pe[b][q]), 0)

\* a structure with a lanthanide: the three calls returned and the f group has weight
C12_Witness ==
    /\ _check_f_orb(poscar) /\ Total(poscar.natoms) > 1
    /\ SpdCalled(atoms_array) /\ SpdCalled(element_array)
    /\ spd_array.value # NotCalled /\ spd_array.spd = AllGroups(poscar)
    /\ spd_array.value # IndexError
    /\ \E b \in DOMAIN spd_array.value : \E q \in DOMAIN spd_array.value[b] :
          spd_array.value[b][q][3] > 0 /\ spd_array.value[b][q][2] > 0

(* ======================= claims: the atom sums ======================= *)
AtomsCalled == atoms_array.value # NotCalled /\ atoms_array.value # IndexError

\* the weight of atom a in orbital group g
GroupWeight(b, q, a, g) ==
    SumMasked(band.projected_eigenvalues[b][q][a], spd_indices(_check_f_orb(poscar))[g])

\* without spd: one full-orbital sum per requested atom, in the requested order
AtomsInOrder ==
    \A b \in DOMAIN atoms_array.value : \A q \in DOMAIN atoms_array.value[b] :
       /\ Size(atoms_array.value[b][q]) = 1
       /\ Size(atoms_array.value[b][q][0]) = Size(atoms_array.atoms)
       /\ \A j \in DOMAIN atoms_array.atoms :
             atoms_array.value[b][q][0][j] = AtomWeight(b, q, atoms_array.atoms[j])

\* C13 as stated: _sum_atoms(atoms) holds the full-orbital sum of exactly the
\* requested atoms in the requested order, and with spd=True the result is likewise
\* restricted to the requested atoms, each with its s/p/d(/f) split.
C13_RestrictedToRequestedAtoms ==
    AtomsCalled =>
       IF ~atoms_array.spd THEN AtomsInOrder
       ELSE \A b \in DOMAIN atoms_array.value : \A q \in DOMAIN atoms_array.value[b] :
               /\ Size(atoms_array.value[b][q]) = Size(atoms_array.atoms)
               /\ \A j \in DOMAIN atoms_array.atoms : \A g \in Range0(GroupCount) :
                     atoms_array.value[b][q][j][g] = GroupWeight(b, q, atoms_array.atoms[j], g)

\* C13 amended: without spd the result holds the full-orbital sum of exactly the
\* requested atoms in the requested order; with spd=True the atoms argument is not
\* used and the result holds every atom of the structure in structure order, each
\* with its s/p/d(/f) split.
C13_SpdHoldsEveryAtom ==
    AtomsCalled =>
       IF ~atoms_array.spd THEN AtomsInOrder
       ELSE \A b \in DOMAIN atoms_array.value : \A q \in DOMAIN atoms_array.value[b] :
               /\ Size(atoms_array.value[b][q]) = Total(poscar.natoms)
               /\ \A a \in Range0(Total(poscar.natoms)) : \A g \in Range0(GroupCount) :
                     atoms_array.value[b][q][a][g] = GroupWeight(b, q, a, g)

\* spd=True with the last and the first atom requested, in that order, on a structure
\* of three atoms or more: the result still has every atom, the first one first
C13_Witness ==
    /\ AtomsCalled /\ atoms_array.spd
    /\ Total(poscar.natoms) >= 3
    /\ atoms_array.atoms = Array(<<Total(poscar.natoms) - 1, 0>>)
    /\ \E b \in DOMAIN atoms_array.value : \E q \in DOMAIN atoms_array.value[b] :
          /\ Size(atoms_array.value[b][q]) > 2
          /\ SumAll(atoms_array.value[b][q][0]) # SumAll(atoms_array.value[b][q][Total(poscar.natoms) - 1])

(* ======================= claims: tick lines and labels ======================= *)
Gamma == "\\Gamma"

\* plot_plain ran on a regular dataset of two natural segments G-X, X-G with 10
\* k-points per leg, no custom path
GXGScenario ==
    /\ constructed /\ ~unfold /\ ~hse /\ custom_kpath = None
    /\ kpoints_file.num_kpts = 10
    /\ kpoints_file.labels = Array(<<"G", "X", "X", "G">>)
    /\ ticks # NotCalled

\* the k indices, the positions and the labels of the tick lines placed
TickIndex == ticks[1]
TickPosition == ticks[2]
TickLabels == ticks[3]

GXGLabels == Array(<< <<Gamma>>, <<"X">>, <<Gamma>> >>)

\* C14 as stated: in that scenario the plain plot places exactly 3 tick lines, at
\* k indices 0, 10, 20, labelled Gamma, X, Gamma.
C14_TicksAtLegStarts ==
    GXGScenario =>
        /\ Returned(ticks)
        /\ TickIndex = Array(<<0, 10, 20>>)
        /\ TickLabels = GXGLabels

\* C14 amended: in that scenario the plain plot places exactly 3 tick lines, at
\* k indices 0, 9, 19 of the 20 k-points (the first k-point and the last k-point of
\* each leg), labelled Gamma, X, Gamma; the middle line is at the distance that
\* k-points 9 and 10 share.
C14_TicksAtLegEnds ==
    GXGScenario =>
        /\ Returned(ticks)
        /\ TickIndex = Array(<<0, 9, 19>>)
        /\ TickLabels = GXGLabels
        /\ Size(kpoints) = 20
        /\ \A t \in DOMAIN TickIndex :
              TickPosition[t] =
                 np_concatenate(_get_k_distance, Size(_get_k_distance))[TickIndex[t]]
        /\ TickPosition[1] = np_concatenate(_get_k_distance, Size(_get_k_distance))[10]

C14_Witness ==
    /\ GXGScenario /\ Returned(ticks) /\ Returned(plotted)
    /\ Size(TickIndex) = 3
    /\ TickPosition[0] = 0 /\ TickPosition[1] > 0 /\ TickPosition[2] > TickPosition[1]

\* the labels of the two ends of natural segment i, as the dataset declares them
NaturalEnds(i) ==
    IF hse THEN <<kpath_labels(kpoints[PyIndex(slices, i)[1]])[1],
                  kpath_labels(kpoints[PyIndex(slices, i)[2] - 1])[1]>>
    ELSE IF unfold THEN PyIndex(kpath, i)
    ELSE <<kpoints_file.labels[2 * PyIndex([s \in DOMAIN slices |-> s], i)],
           kpoints_file.labels[2 * PyIndex([s \in DOMAIN slices |-> s], i) + 1]>>

\* the start and the end label of path entry j: a reversed segment has them swapped
StartLabel(j) == IF PathFlip[j] THEN NaturalEnds(PathIndex[j])[2] ELSE NaturalEnds(PathIndex[j])[1]
EndLabel(j) == IF PathFlip[j] THEN NaturalEnds(PathIndex[j])[1] ELSE NaturalEnds(PathIndex[j])[2]

\* the label the rule gives the boundary between path entries j - 1 and j
BoundaryLabel(j) ==
    IF EndLabel(j - 1) = StartLabel(j) THEN <<Rendered(StartLabel(j))>>
    ELSE <<Rendered(EndLabel(j - 1)), Rendered(StartLabel(j))>>

\* C15: at every interior boundary of the plotted path the tick label is the single
\* label when the end of the previous segment and the start of the next carry the
\* same label, else 'A|B' in path order (a reversed segment contributing its end
\* points swapped), with 'G' rendered as Gamma; this holds for the regular, the
\* hybrid and the unfolded tick routine.
C15_BoundaryLabelsMerged ==
    (constructed /\ Returned(ticks)) =>
        /\ Size(TickLabels) = Size(PathIndex) + 1
        /\ \A j \in 1..(Size(PathIndex) - 1) : TickLabels[j] = BoundaryLabel(j)

\* the same rule on the regular and the unfolded routine only
C15_BoundaryLabelsMerged_NotHybrid == hse \/ C15_BoundaryLabelsMerged

\* a hybrid path whose boundary joins X to G: the tick reads 'X|G', G not substituted
C15_HybridGammaNotRendered ==
    /\ constructed /\ Returned(ticks) /\ hse
    /\ Size(PathIndex) = 2
    /\ BoundaryLabel(1) = <<"X", Gamma>>
    /\ TickLabels[1] = <<"X", "G">>

(* ======================= claims: the segment slices ======================= *)
\* the k indices of a slice [lo, hi)
IndexSet(sl) == {q \in DOMAIN kpoints : sl[1] <= q /\ q < sl[2]}

PairwiseDisjoint ==
    \A i, j \in DOMAIN slices : i # j => IndexSet(slices[i]) \cap IndexSet(slices[j]) = {}

\* C16: for a regular dataset whose high-symmetry list has even length 2m,
\* _get_slices returns m slices, slice i being [i*n, (i+1)*n) for n k-points per
\* leg, and the slices are pairwise disjoint.
C16_RegularSlices ==
    (~unfold /\ ~hse /\ Size(kpoints_file.kpts) % 2 = 0) =>
        /\ Size(slices) = Size(kpoints_file.kpts) \div 2
        /\ \A i \in DOMAIN slices :
              /\ slices[i] = <<i * kpoints_file.num_kpts, (i + 1) * kpoints_file.num_kpts>>
              /\ Cardinality(IndexSet(slices[i])) = kpoints_file.num_kpts
        /\ PairwiseDisjoint

\* a regular run of two legs was plotted leg by leg, 10 k-points each
C16_Witness ==
    /\ constructed /\ ~unfold /\ ~hse /\ custom_kpath = None
    /\ Size(kpoints_file.kpts) = 4 /\ kpoints_file.num_kpts = 10
    /\ Returned(plotted) /\ Size(plotted) = 2
    /\ \A j \in DOMAIN plotted : Size(plotted[j].wave_vectors) = 10

\* C17: for an unfolded dataset of L legs _get_slices returns exactly L slices of
\* the same length len(kpoints)/L, slice i being [i*len, (i+1)*len), and together
\* they cover every k index exactly once.
C17_UnfoldSlices ==
    unfold =>
        LET L == Size(kpath)
            len == Size(kpoints) \div L
        IN  /\ Size(slices) = L
            /\ len * L = Size(kpoints)
            /\ \A i \in DOMAIN slices :
                  /\ slices[i] = <<i * len, (i + 1) * len>>
                  /\ Cardinality(IndexSet(slices[i])) = len
            /\ \A q \in DOMAIN kpoints :
                  Cardinality({i \in DOMAIN slices : q \in IndexSet(slices[i])}) = 1

\* an unfolded run of two legs was plotted leg by leg
C17_Witness ==
    /\ constructed /\ unfold /\ custom_kpath = None
    /\ Size(kpath) = 2 /\ Size(kpoints) = 6
    /\ Returned(plotted) /\ Size(plotted) = 2
    /\ \A j \in DOMAIN plotted : Size(plotted[j].wave_vectors) = 3

matched == Array(SortedArrayOf(MatchedIndex(kpoints, symm_kpath)))

\* C18: for a hybrid dataset the k indices matching a high-symmetry coordinate are
\* taken in increasing order and paired consecutively, every pair (a, b) giving the
\* slice [a, b+1); every matched index lies in exactly one segment.
C18_HybridSlices ==
    (hse /\ ~unfold) =>
        /\ \A t \in DOMAIN matched : t > 0 => matched[t - 1] < matched[t]
        /\ Size(slices) = Size(matched) \div 2
        /\ \A i \in DOMAIN slices : slices[i] = <<matched[2 * i], matched[2 * i + 1] + 1>>
        /\ \A t \in DOMAIN matched :
              Cardinality({i \in DOMAIN slices : matched[t] \in IndexSet(slices[i])}) = 1

\* a hybrid run of two legs of three k-points: four matched indices, two segments
C18_Witness ==
    /\ constructed /\ hse /\ custom_kpath = None
    /\ Size(matched) = 4 /\ Size(kpoints) = 6
    /\ slices = Array(<< <<0, 3>>, <<3, 6>> >>)
    /\ Returned(plotted) /\ Size(plotted) = 2

(* ======================= claims: the resampling ======================= *)
\* the grid over the distances x: new_n points from the least to the largest
GridOf(x) == np_linspace(MinOf(x), MaxOf(x), new_n)

\* a[row][t] is the linear interpolant of block[row] over the distances x at the
\* grid, negative values replaced by 0
LinearCropped(a, block, x, grid) ==
    \A b \in DOMAIN block : \A t \in DOMAIN grid :
        /\ a[b][t] = CropZero(interp1d_linear(x, block[b], grid[t]))
        /\ a[b][t][1] >= 0

\* a[row][t] is the cubic interpolant of block[row], whatever its sign
CubicUnclamped(a, block, x, grid) ==
    \A b \in DOMAIN block : \A t \in DOMAIN grid :
        a[b][t] = interp1d_cubic(x, block[b], grid[t])

Interpolating == constructed /\ interpolate = TRUE

\* the entry d drawn by plot_plain for segment i, flipped when f, over the distances x
DrawnAsClaimed(d, i, f, x, grid) ==
    /\ CubicUnclamped(d.eigenvalues, SegmentEigenvalues(DOMAIN d.eigenvalues, i, f), x, grid)
    /\ spin_projections # None =>
          LinearCropped(d.spin_projections,
                        SegmentBlock(spin_projection_full_k, DOMAIN d.eigenvalues, i, f),
                        x, grid)
    /\ unfold =>
          LinearCropped(d.spectral_weights,
                        SegmentBlock(spectral_weights, DOMAIN d.eigenvalues, i, f), x, grid)

\* the projected_data every _plot_projected_general of the Band was given
projected_data_full_k ==
    ProjectedFullK(GenProjected(IF unfold THEN (Size(kpoints) + 1) \div 2 ELSE Size(kpoints)))

\* the entry e drawn by _plot_projected_general
ProjectedAsClaimed(e, i, f, x, grid) ==
    /\ CubicUnclamped(e.eigenvalues, SegmentEigenvalues(DOMAIN e.eigenvalues, i, f), x, grid)
    /\ \A c \in DOMAIN e.projected_data_slice :
          LinearCropped(e.projected_data_slice[c],
                        ItemOf(SegmentBlock(projected_data_full_k, DOMAIN e.eigenvalues, i, f), c),
                        x, grid)
    /\ unfold =>
          LinearCropped(e.spectral_weights,
                        SegmentBlock(spectral_weights, DOMAIN e.eigenvalues, i, f), x, grid)

EntriesAsClaimed(wave_vector_segments) ==
    /\ Returned(drawn) =>
          \A j \in DOMAIN drawn :
             DrawnAsClaimed(drawn[j], PathIndex[j], PathFlip[j],
                            wave_vector_segments[j], GridOf(wave_vector_segments[j]))
    /\ Returned(projected) =>
          \A j \in DOMAIN projected :
             ProjectedAsClaimed(projected[j], PathIndex[j], PathFlip[j],
                                wave_vector_segments[j], GridOf(wave_vector_segments[j]))

\* C19: with interpolate=True every weight array that plot_plain and
\* _plot_projected_general resample (spin projections, spectral weights, projected
\* weights) is interpolated linearly with negative values cropped to 0, so it holds
\* no negative value; the eigenvalues are interpolated cubically and never clamped.
C19_WeightsLinearCroppedEigenvaluesCubic ==
    (Interpolating /\ (Returned(drawn) \/ Returned(projected))) =>
        EntriesAsClaimed(_get_k_distance)

\* the grid of path entry j
Grid(j) == GridOf(_get_k_distance[j])

\* the bands drawn for entry j
BandsOf(a, j) == DOMAIN a[j].eigenvalues

\* a resampled plot of an unfolded run: between two k-points an eigenvalue is negative
\* and kept, and a spectral weight differs from what the cubic would give
C19_Witness ==
    /\ Interpolating /\ Returned(projected) /\ Returned(drawn) /\ unfold /\ new_n = 3
    /\ \E j \in DOMAIN drawn : \E b \in BandsOf(drawn, j) :
          /\ drawn[j].eigenvalues[b][1][1] < 0
          /\ drawn[j].eigenvalues[b][1][2] > 1
          /\ drawn[j].spectral_weights[b][1] #
                interp1d_cubic(_get_k_distance[j],
                               SegmentBlock(spectral_weights, BandsOf(drawn, j),
                                            PathIndex[j], PathFlip[j])[b], Grid(j)[1])
          /\ \E c \in DOMAIN projected[j].projected_data_slice :
                projected[j].projected_data_slice[c][b][1][1] > 0

\* the distances of natural segment i taken alone, starting at 0
LocalKDist(i) == SegmentKDist(PySlice(kpoints, PyIndex(slices, i)), inv_matrix)

\* C20: with interpolate=True every path entry is resampled on its own: it returns
\* exactly new_n points that span the entry's least to largest distance uniformly,
\* the drawn path is the per-entry results in path order, and the values of an
\* entry are those of its own segment's distances and data, the same wherever the
\* entry stands in the path.
C20_SegmentsResampledOnTheirOwn ==
    (Interpolating /\ Returned(drawn)) =>
        /\ DOMAIN drawn = DOMAIN PathIndex
        /\ \A j \in DOMAIN drawn :
              LET x == drawn[j].wave_vectors
                  lo == MinOf(_get_k_distance[j])
                  hi == MaxOf(_get_k_distance[j])
              IN  /\ Size(x) = new_n
                  /\ x[0] = OfInt(lo) /\ x[new_n - 1] = OfInt(hi)
                  /\ \A t \in 1..(new_n - 1) :
                        FSub(x[t], x[t - 1]) = Frac(hi - lo, new_n - 1)
                  /\ \A b \in BandsOf(drawn, j) :
                        /\ Size(drawn[j].eigenvalues[b]) = new_n
                        /\ \A t \in DOMAIN x :
                              drawn[j].eigenvalues[b][t] =
                                 interp1d_cubic(
                                    LocalKDist(PathIndex[j]),
                                    SegmentEigenvalues(BandsOf(drawn, j), PathIndex[j],
                                                       PathFlip[j])[b],
                                    FSub(x[t], OfInt(lo)))
        /\ \A j1, j2 \in DOMAIN drawn :
              (PathIndex[j1] = PathIndex[j2] /\ PathFlip[j1] = PathFlip[j2]) =>
                 /\ drawn[j1].eigenvalues = drawn[j2].eigenvalues
                 /\ drawn[j1].spin_projections = drawn[j2].spin_projections
                 /\ drawn[j1].spectral_weights = drawn[j2].spectral_weights

\* a custom path that takes the same segment twice: the second copy is drawn further
\* along the path with the values of the first
C20_Witness ==
    /\ Interpolating /\ Returned(drawn) /\ custom_kpath # None /\ new_n = 3
    /\ Size(drawn) = 2 /\ segmentCount = 2
    /\ PathIndex[0] = PathIndex[1] /\ PathFlip[0] = PathFlip[1]
    /\ drawn[0].eigenvalues = drawn[1].eigenvalues
    /\ drawn[0].wave_vectors[0] = OfInt(0)
    /\ drawn[1].wave_vectors[0] = drawn[0].wave_vectors[2]
    /\ drawn[1].wave_vectors[1] # drawn[0].wave_vectors[1]


(* ======================= C21 ======================= *)
RECURSIVE Shape(_, _)
\* a.shape of an array of the given rank
Shape(a, rank) == IF rank = 0 THEN <<>> ELSE <<Size(a)>> \o Shape(a[0], rank - 1)

\* the rank of the array stored as kind
Rank(kind) ==
    IF kind = "eigenvalues" THEN 3 ELSE IF kind = "unfolded_eigenvalues" THEN 4
    ELSE IF kind = "projected_eigenvalues" THEN 5 ELSE 3

\* the file a of kind is unreadable, or its shape is not the shape of the array the
\* dataset ds gives
Mismatched(ds, kind, a) ==
    \/ a = Corrupt
    \/ /\ StoredBy(ds, kind) # None
       /\ Shape(a, Rank(kind)) # Shape(StoredBy(ds, kind), Rank(kind))

\* C21: a construction that loads a cache file which is corrupt or whose shape does
\* not match the dataset ends in an error, and the file is not written again
C21_MismatchIsFatal ==
    band.status # "none" =>
        \A kind \in band.pre_loaded :
            Mismatched(dataset, kind, files[kind]) =>
                band.status # "ok" /\ writes[kind] = 0

\* the part of C21 the code keeps: an unreadable file ends the construction in
\* an error and stays as it is
C21_CorruptIsFatal ==
    band.status # "none" =>
        \A kind \in band.pre_loaded :
            files[kind] = Corrupt => band.status = "ValueError" /\ writes[kind] = 0

\* a construction has tried to load an unreadable file
C21_CorruptLoaded ==
    band.status # "none" /\ \E kind \in band.pre_loaded : files[kind] = Corrupt


(* ======================= C22 ======================= *)
\* C22: a construction with soc_axis in {x, y, z} on a dataset whose spin-orbit
\* flag is off ends in an error
C22_AxisWithoutSocIsFatal ==
    (band.status # "none" /\ ~dataset.LSORBIT /\ band.params.soc_axis \in {"x", "y", "z"})
        => band.status # "ok"

\* what the constructor does with such a request: the Band is the one built with
\* soc_axis = None, and spin_projections is never loaded
C22_AxisIgnored ==
    (band.status # "none" /\ ~dataset.LSORBIT) =>
        /\ band.spin_projections = None
        /\ "spin_projections" \notin band.pre_loaded
        /\ files["spin_projections"] = None


(* ======================= C23 ======================= *)
\* the call ended in an error
Failed(x) == x = IndexError \/ x = KeyError

ValidIndex(i, n) == 0 <= i /\ i < n

\* C23: an aggregation called with an orbital index outside [0, orbitalCount), an
\* atom index outside [0, atomCount), a symbol that is not in the structure or a
\* letter other than s/p/d/f ends in an error and returns no array
C23_InvalidSelectorIsFatal ==
    /\ orbital_array.value # NotCalled =>
          ((\E j \in DOMAIN orbital_array.orbitals :
              ~ValidIndex(orbital_array.orbitals[j], ProcarOrbitals(poscar)))
           => Failed(orbital_array.value))
    /\ atoms_array.value # NotCalled =>
          ((\E j \in DOMAIN atoms_array.atoms :
              ~ValidIndex(atoms_array.atoms[j], Total(poscar.natoms)))
           => Failed(atoms_array.value))
    /\ element_array.value # NotCalled =>
          ((\E j \in DOMAIN element_array.elements :
              \A i \in DOMAIN poscar.site_symbols :
                  poscar.site_symbols[i] # element_array.elements[j])
           => Failed(element_array.value))
    /\ spd_array.value # NotCalled =>
          ((\E j \in DOMAIN spd_array.spd : spd_array.spd[j] \notin {"s", "p", "d", "f"})
           => Failed(spd_array.value))

\* what the code keeps of C23: an index at or beyond the count and a letter that
\* is no group end in an error
C23_BeyondCountIsFatal ==
    /\ orbital_array.value # NotCalled =>
          ((\E j \in DOMAIN orbital_array.orbitals :
              orbital_array.orbitals[j] >= ProcarOrbitals(poscar))
           => orbital_array.value = IndexError)
    /\ atoms_array.value # NotCalled =>
          ((\E j \in DOMAIN atoms_array.atoms :
              atoms_array.atoms[j] >= Total(poscar.natoms))
           => atoms_array.value = IndexError)
    /\ spd_array.value # NotCalled =>
          ((\E j \in DOMAIN spd_array.spd : spd_array.spd[j] \notin {"s", "p", "d", "f"})
           => spd_array.value = KeyError)

\* index -1 returned the last orbital's array
C23_OrbitalWrapped ==
    /\ orbital_array.value # NotCalled /\ ~Failed(orbital_array.value)
    /\ orbital_array.orbitals[0] = -1
    /\ orbital_array.value =
          _sum_orbitals(band.projected_eigenvalues, Array(<<ProcarOrbitals(poscar) - 1>>))

\* a symbol that is not in the structure returned an array of zeros
C23_AbsentElementIsZero ==
    /\ element_array.value # NotCalled /\ ~Failed(element_array.value)
    /\ element_array.elements[0] = "Xx"
    /\ \A b \in DOMAIN element_array.value : \A q \in DOMAIN element_array.value[b] :
          element_array.value[b][q][0] = 0


(* ======================= C24 ======================= *)
\* the length of the k axis of a[band][k]...
KAxis(a) == Size(a[0])

\* C24: in a constructed Band the k axis of eigenvalues is as long as kpoints, the
\* band axis of the projection weights, the spin-axis projections and the spectral
\* weights is as long as that of eigenvalues, and unless the dataset is unfolded
\* the k axis of both projection arrays is as long as that of eigenvalues
C24_AxesAgree ==
    band.status = "ok" =>
        /\ \A b \in DOMAIN band.eigenvalues :
              Size(band.eigenvalues[b]) = Size(band.kpoints)
        /\ band.projected_eigenvalues # None =>
              /\ Size(band.projected_eigenvalues) = Size(band.eigenvalues)
              /\ ~band.params.unfold =>
                    \A b \in DOMAIN band.projected_eigenvalues :
                        Size(band.projected_eigenvalues[b]) = KAxis(band.eigenvalues)
        /\ band.spin_projections # None =>
              /\ Size(band.spin_projections) = Size(band.eigenvalues)
              /\ ~band.params.unfold =>
                    \A b \in DOMAIN band.spin_projections :
                        Size(band.spin_projections[b]) = KAxis(band.eigenvalues)
        /\ band.spectral_weights # None =>
              /\ Size(band.spectral_weights) = Size(band.eigenvalues)
              /\ \A b \in DOMAIN band.spectral_weights :
                    Size(band.spectral_weights[b]) = KAxis(band.eigenvalues)

\* a hybrid-functional spin-orbit Band with both projection arrays, its
\* eigenvalues and projections loaded from the cache and cut to the zero-weight
\* k-points
C24_Witness ==
    /\ band.status = "ok" /\ band.hse
    /\ band.projected_eigenvalues # None /\ band.spin_projections # None
    /\ {"eigenvalues", "projected_eigenvalues", "spin_projections"} \subseteq band.pre_loaded
    /\ KAxis(band.eigenvalues) < NKpts
    /\ Size(band.projected_eigenvalues[0]) = KAxis(band.eigenvalues)

\* an unfolded Band with spectral weights and projection weights
C24_WitnessUnfolded ==
    /\ band.status = "ok" /\ band.params.unfold
    /\ band.spectral_weights # None /\ band.projected_eigenvalues # None
    /\ KAxis(band.eigenvalues) = Size(band.kpoints)
    /\ Size(band.projected_eigenvalues[0]) # KAxis(band.eigenvalues)


(* ======================= C25 ======================= *)
\* the k-points a load is to return: EIGENVAL's, at the zero-weight ones when hse
KpointsRead(ds, hs) ==
    IF hs THEN Take(eigenval_kpoints(ds), zero_weight(ds)) ELSE eigenval_kpoints(ds)

\* the column of EIGENVAL's channel ch at k-point q and band b
Column(ds, ch, q, b, c) == eigenval_eigenvalues(ds)[ch][q][b][c]

\* the energies of channel ch minus efermi, [band][k]
EnergiesRead(ds, ch, efermi, hs) ==
    [b \in Range0(NBands) |-> [j \in DOMAIN KpointsRead(ds, hs) |->
        Column(ds, ch, IF hs THEN zero_weight(ds)[j] ELSE j, b, 0) - efermi]]

\* the channel of the chosen spin: the first for up, the second for down when
\* EIGENVAL has two
ChannelRead(ds, spin) == IF ds.nchannels > 1 THEN SpinIndex(spin) ELSE 0

\* C25: a load of eigenvalues.npy returns the k-point coordinates from the
\* trailing 3 columns and the energies of the chosen spin channel, as they were
\* stored, for every combination of the ISPIN flag, the spin-orbit flag and the
\* number of channels of EIGENVAL
C25_DecodedAsEncoded ==
    (band.status = "ok" /\ "eigenvalues" \in band.pre_loaded) =>
        /\ band.kpoints = KpointsRead(dataset, band.hse)
        /\ \E shift \in {0, 1} :
              band.eigenvalues =
                 Stretched(EnergiesRead(dataset, ChannelRead(dataset, band.params.spin),
                                        dataset.efermi + shift, band.hse),
                           band.params.stretch_factor)

\* a load that took a k-point coordinate for the down energy and one column for
\* the k-point
C25_CoordinateAsEnergy ==
    /\ band.status = "ok" /\ "eigenvalues" \in band.pre_loaded
    /\ dataset.ISPIN /\ ~dataset.LSORBIT /\ dataset.nchannels = 1
    /\ Size(band.kpoints[0]) = 1
    /\ band.eigenvalues[0][0][1] = eigenval_kpoints(dataset)[0][0]


(* ======================= C26 ======================= *)
\* C26: when two constructions on one folder interleave, neither loads a cache
\* file the other has not written to its end, and the file is saved at most once
C26_NoPartialLoadOneWriter ==
    /\ \A c \in Constructors : constructions[c].loaded # Partial
    /\ \A kind \in Kinds : writes[kind] <= 1

\* a construction found the file while the other was writing it and failed to load
C26_PartialLoaded ==
    \E c \in Constructors, d \in Constructors :
        /\ constructions[c].loaded = Partial /\ constructions[c].band.status = "ValueError"
        /\ constructions[d].pc \in {"saving", "done"} /\ ~constructions[d].pre_loaded_bands

\* both constructions found no file and both saved it
C26_WrittenTwice ==
    /\ \A c \in Constructors : constructions[c].pc = "done" /\ ~constructions[c].pre_loaded_bands
    /\ \E kind \in Kinds : writes[kind] = 2


(* ======================= C27 ======================= *)
\* the unfolder's energies of the chosen spin channel minus efermi at the points
\* of the unfolded path, [band][k]
UnfoldedEnergiesRead(ds, spin, efermi) ==
    [b \in Range0(NBands) |-> [j \in DOMAIN UnfoldInds(ds.n, ds.legs) |->
        spectral_weight(ds)[UnfoldSpinIndex(ds, spin)][UnfoldInds(ds.n, ds.legs)[j]][b][0]
            - efermi]]

\* the raw eigenvalues minus the Fermi energy of this construction, times its
\* stretch factor
OwnEigenvalues ==
    Stretched(IF band.params.unfold
              THEN UnfoldedEnergiesRead(dataset, band.params.spin, band.efermi)
              ELSE EnergiesRead(dataset, ChannelRead(dataset, band.params.spin),
                                band.efermi, band.hse),
              band.params.stretch_factor)

\* C27: the eigenvalues of a constructed Band are the raw eigenvalues minus this
\* construction's Fermi energy (E-fermi plus shift_efermi) times this
\* construction's stretch_factor, on a cache hit as on a miss
C27_ShiftedByOwnFermi ==
    band.status = "ok" => band.eigenvalues = OwnEigenvalues

\* what the code keeps of C27: it holds on a miss, and on a hit of the unfolded
\* file, where the shift is applied after the load
C27_OwnFermiOnMissAndUnfolded ==
    (band.status = "ok" /\ "eigenvalues" \notin band.pre_loaded) =>
        band.eigenvalues = OwnEigenvalues

\* a Band loaded from eigenvalues.npy whose energies carry the shift of the
\* construction that wrote the file
C27_WritersFermi ==
    /\ band.status = "ok" /\ "eigenvalues" \in band.pre_loaded
    /\ band.params.shift_efermi = 1
    /\ band.eigenvalues =
          Stretched(EnergiesRead(dataset, ChannelRead(dataset, band.params.spin),
                                 dataset.efermi, band.hse),
                    band.params.stretch_factor)


(* ======================= C28 ======================= *)
\* the unfolder point behind point j of a path of legs of n + 1 points each
UnfolderPoint(n, j) == j - (j \div (n + 1))

\* a[band][k] is t[k][band][c] of the unfolder, minus shift and times factor, at
\* the unfolder point of every k
FromUnfolder(a, t, n, c, shift, factor) ==
    /\ DOMAIN a = Range0(NBands)
    /\ \A b \in DOMAIN a :
          a[b] = [j \in DOMAIN a[b] |-> (t[UnfolderPoint(n, j)][b][c] - shift) * factor]

\* C28: an unfolded Band of L legs of n intervals has (n + 1) * L points, made of
\* the n * L + 1 unfolder points with every interior high-symmetry point once
\* more; eigenvalues, spectral weights, origin-k indices and k-points are taken at
\* the same points, the last point of a leg is the first point of the next, and
\* every leg starts and ends on a high-symmetry point
C28_InteriorPointsRepeated ==
    (band.status = "ok" /\ band.params.unfold) =>
        LET n == dataset.n
            L == dataset.legs
            t == spectral_weight(dataset)[UnfoldSpinIndex(dataset, band.params.spin)]
        IN  /\ Size(make_kpath(dataset)) = n * L + 1
            /\ Size(band.kpoints) = (n + 1) * L
            /\ band.kpoints =
                  [j \in Range0((n + 1) * L) |-> make_kpath(dataset)[UnfolderPoint(n, j)]]
            /\ \A b \in Range0(NBands) : Size(band.eigenvalues[b]) = (n + 1) * L
            /\ FromUnfolder(band.eigenvalues, t, n, 0, band.efermi, band.params.stretch_factor)
            /\ FromUnfolder(band.spectral_weights, t, n, 1, 0, 1)
            /\ FromUnfolder(band.K_indices, t, n, 2, 0, 1)
            /\ \A i \in Range0(L - 1) :
                  band.kpoints[(n + 1) * i + n] = band.kpoints[(n + 1) * (i + 1)]
            /\ \A i \in Range0(L) :
                  /\ band.kpoints[(n + 1) * i] = make_kpath(dataset)[n * i]
                  /\ band.kpoints[(n + 1) * i + n] = make_kpath(dataset)[n * (i + 1)]

\* an unfolded Band of three legs of two intervals: 9 points from 7
C28_Witness ==
    /\ band.status = "ok" /\ band.params.unfold
    /\ dataset.n = 2 /\ dataset.legs = 3
    /\ Size(band.kpoints) = 9
    /\ band.kpoints[2] = band.kpoints[3] /\ band.kpoints[5] = band.kpoints[6]
    /\ band.kpoints[3] # band.kpoints[4]


(* ======================= C29 ======================= *)
\* the path is the natural one, or every entry of custom_kpath names a segment
ValidPath ==
    custom_kpath = None \/ \A j \in DOMAIN custom_kpath : ~InvalidEntry(custom_kpath[j])

\* the ticks, given the chained distance arrays kd of the m path entries: m + 1
\* positions and labels, every index inside the concatenated distances, the first
\* tick at the start of the path, the last at its end, and tick t between at the
\* value that entry t - 1 ends and entry t starts with
TicksOnBoundaries(kd, m) ==
    /\ Size(kd) = m
    /\ Size(TickIndex) = m + 1 /\ Size(TickPosition) = m + 1 /\ Size(TickLabels) = m + 1
    /\ \A t \in 0..m :
          /\ TickIndex[t] >= 0 /\ TickIndex[t] < Size(np_concatenate(kd, m))
          /\ TickPosition[t] = np_concatenate(kd, m)[TickIndex[t]]
    /\ TickPosition[0] = kd[0][0]
    /\ TickPosition[0] = 0
    /\ TickPosition[m] = Last(kd[m - 1])
    /\ \A t \in 1..(m - 1) :
          /\ TickPosition[t] = Last(kd[t - 1])
          /\ TickPosition[t] = kd[t][0]

\* C29: on all three schemes and for every valid path of m entries (natural or
\* custom, with repeated or reversed segments) the tick routine returns m + 1
\* positions and m + 1 labels, every tick index lies inside the concatenated
\* distances and every tick is at a segment boundary of the chained distances
C29_TicksOnSegmentBoundaries ==
    (constructed /\ ticks # NotCalled /\ ValidPath) =>
        /\ Returned(ticks)
        /\ TicksOnBoundaries(_get_k_distance, Size(PathIndex))

\* ticks of a custom path of two entries, one of them reversed, on a dataset of
\* unevenly spaced k-points
C29_Witness ==
    /\ constructed /\ Returned(ticks) /\ ValidPath
    /\ custom_kpath # None /\ Size(PathIndex) = 2
    /\ \E j \in DOMAIN PathFlip : PathFlip[j]
    /\ Size(TickIndex) = 3
    /\ TickPosition[1] > 0 /\ TickPosition[2] > TickPosition[1]

\* the same on a hybrid-functional dataset, on a repeated segment
C29_WitnessHybrid ==
    /\ constructed /\ Returned(ticks) /\ ValidPath /\ hse
    /\ custom_kpath # None /\ Size(PathIndex) = 2 /\ PathIndex[0] = PathIndex[1]
    /\ Size(TickIndex) = 3

\* the same on an unfolded dataset
C29_WitnessUnfolded ==
    /\ constructed /\ Returned(ticks) /\ ValidPath /\ unfold
    /\ Size(PathIndex) = 2 /\ Size(TickIndex) = 3


(* ======================= C30 ======================= *)
\* the k-points of path entry j in the order they are plotted
PlottedKpoints(j) ==
    IF PathFlip[j] THEN np_flip(PySlice(kpoints, PyIndex(slices, PathIndex[j])))
    ELSE PySlice(kpoints, PyIndex(slices, PathIndex[j]))

\* where path entry j starts: 0, or where the entry before it ends
StartOffset(kd, j) == IF j = 0 THEN 0 ELSE Last(kd[j - 1])

\* the distances of entry j are its start offset plus the path length from its
\* first plotted point to each plotted point
AlongTraversal(kd, j) ==
    kd[j] = [q \in DOMAIN kd[j] |->
                StartOffset(kd, j) + SegmentKDist(PlottedKpoints(j), inv_matrix)[q]]

\* C30: the distance of the j-th plotted point of a reversed path entry is the
\* entry's start offset plus the path length from the first plotted point (the
\* last k-point of the natural segment) to that point, whatever the spacing of
\* the k-points
C30_ReversedDistanceAlongTraversal ==
    (constructed /\ Returned(kdists) /\ ValidPath) =>
        \A j \in DOMAIN PathIndex : PathFlip[j] => AlongTraversal(kdists, j)

\* what _get_k_distance returns for a reversed entry: the start offset plus the
\* path length measured from the first k-point of the natural segment
C30_ReversedDistanceInNaturalOrder ==
    (constructed /\ Returned(kdists) /\ ValidPath) =>
        \A j \in DOMAIN PathIndex :
            kdists[j] = [q \in DOMAIN kdists[j] |->
                            StartOffset(kdists, j) + LocalKDist(PathIndex[j])[q]]

\* a reversed entry of unevenly spaced k-points whose second plotted point is
\* given the length of the natural segment's first step, not of its last
C30_FirstStepForLastStep ==
    /\ constructed /\ Returned(kdists) /\ ValidPath
    /\ \E j \in DOMAIN PathIndex :
          /\ PathFlip[j] /\ Size(kdists[j]) >= 3
          /\ kdists[j][1] - kdists[j][0] = LocalKDist(PathIndex[j])[1]
          /\ kdists[j][1] - kdists[j][0] #
                SegmentKDist(PlottedKpoints(j), inv_matrix)[1]

====
